---- MODULE Spec2Model ----
(***************************************************************************)
(* Storage layer of the job tracker: the Local Backend (localStorage blob), *)
(* the Remote Backend (job_postings table filtered by owner), the field     *)
(* transformers between records and rows, the migration routine with its    *)
(* prompt, and AppContext's updateJob on top of the selected backend.       *)
(*                                                                          *)
(* Timestamps are integers read from the clock `now`; a null date is        *)
(* NoDate.  Generated identifiers are integers drawn from `nextId`.         *)
(* A nullable string that is null is the value NullStr.                     *)
(***************************************************************************)
EXTENDS Integers, Sequences, FiniteSets, TLC

VARIABLES
    now,        \* the wall clock read by new Date()
    nextId,     \* source of crypto.randomUUID() / gen_random_uuid()
    storage,    \* condition of window.localStorage: "ok", "full" or "down"
    blob,       \* value under STORAGE_KEY: [kind, jobs]
    table,      \* rows of the job_postings table (all owners)
    userId,     \* owner identity the Remote Backend / AppProvider is bound to
    lastOp,     \* the last backend call: operation, arguments and result
    appJobs,    \* AppState.jobs, the in-memory list
    appError,   \* AppState.error
    call,       \* the AppContext.updateJob call in flight
    mig,        \* the migrateToCloud call: position, snapshot, result
    prompt,     \* MigrationPrompt: state and result
    peer,       \* the Remote Backend's result of a call issued to both backends
    xf,         \* a transformer call: its input and what it produced
    factory,    \* StorageServiceFactory: cached pair, instances made, last call
    contactJob, \* the job posting handed through ContactService
    appLoading, \* AppState.isLoading
    loads,      \* the loadJobs calls started so far, oldest first
    calls       \* AppContext.updateJob calls that overlap

vars == <<now, nextId, storage, blob, table, userId, lastOp, appJobs, appError, call, mig, prompt,
          peer, xf, factory, contactJob, appLoading, loads, calls>>

(***************************************************************************)
(* Bounds of the model.                                                     *)
(***************************************************************************)
MaxClock == 2
MaxIds == 2
MaxLocal == 2
MaxAttempts == 2
MaxInstances == 4
MaxContacts == 2
MaxLoads == 3
MaxCalls == 2

NoDate == 0
NullStr == "null"
NoId == 0
NoUser == "none"

Users == {"u1", "u2"}

ApplicationStatuses == {"Saved", "Applied", "Interview", "Offer", "Rejected"}
ReferralOutreachStatuses ==
    {"Have to Find", "Found Contact", "Messaged", "Got Referral", "No Response", "Declined"}

\* The guard accepting any text.
isValidApplicationStatus_any(status) == TRUE

isValidApplicationStatus(status) == status \in ApplicationStatuses
isValidReferralOutreachStatus(status) == status \in ReferralOutreachStatuses

\* Fields of a creation payload: JobPosting without id, dateAdded, lastUpdated.
PayloadFields ==
    {"jobId", "jobTitle", "company", "location", "description", "linkedInUrl",
     "applicationLink", "applicationRequirements", "applicationDeadline",
     "referralMessage", "referralOutreachStatus", "notes", "status",
     "referralContacts", "dateApplied"}

JobFields == PayloadFields \cup {"id", "dateAdded", "lastUpdated"}

\* A payload as AddJobModal builds it, varied in the fields the operations
\* below look at.
MakePayload(title, req, st, applied) ==
    [jobId |-> NullStr, jobTitle |-> title, company |-> "Acme", location |-> "Remote",
     description |-> "d", linkedInUrl |-> NullStr, applicationLink |-> NullStr,
     applicationRequirements |-> req, applicationDeadline |-> NullStr,
     referralMessage |-> "", referralOutreachStatus |-> "Have to Find", notes |-> "",
     status |-> st, referralContacts |-> <<>>, dateApplied |-> applied]

Payloads ==
    { MakePayload("A", NullStr, "Saved", NoDate), MakePayload("B", "", "Saved", NoDate) }

\* { ...a, ...b }: object spread, b's fields win.
Spread(a, b) ==
    [f \in (DOMAIN a) \cup (DOMAIN b) |-> IF f \in DOMAIN b THEN b[f] ELSE a[f]]

\* JavaScript truthiness of a nullable string and of a nullable date.
TruthyStr(v) == v # NullStr /\ v # ""
TruthyDate(v) == v # NoDate

(***************************************************************************)
(* Local Backend                                                            *)
(***************************************************************************)
NoBlob == [kind |-> "none", jobs |-> <<>>]
CorruptBlob == [kind |-> "corrupt", jobs |-> <<>>]
JobsBlob(jobs) == [kind |-> "jobs", jobs |-> jobs]

\* isStorageAvailable: the setItem/removeItem probe of a tiny test key.
isStorageAvailable(st) == st # "down"

\* Array.prototype.sort with the comparator b.dateAdded - a.dateAdded: a stable
\* sort, newest first.
\* The insertion that keeps the stored order.
InsertDesc_append(sorted, j) == Append(sorted, j)

RECURSIVE InsertDesc(_, _)
InsertDesc(sorted, j) ==
    IF sorted = <<>> THEN <<j>>
    ELSE IF Head(sorted).dateAdded >= j.dateAdded
         THEN <<Head(sorted)>> \o InsertDesc(Tail(sorted), j)
         ELSE <<j>> \o sorted

RECURSIVE SortNewestFirst(_)
SortNewestFirst(jobs) ==
    IF jobs = <<>> THEN <<>>
    ELSE InsertDesc(SortNewestFirst(SubSeq(jobs, 1, Len(jobs) - 1)), jobs[Len(jobs)])

\* getAllJobs(): [] when the store is unavailable, the key is absent or the
\* blob does not parse; the parsed array sorted newest first otherwise.
getAllJobs(st, b) ==
    IF ~isStorageAvailable(st) THEN <<>>
    ELSE IF b.kind # "jobs" THEN <<>>
    ELSE SortNewestFirst(b.jobs)

\* saveAllJobs(jobs): whether setItem stored the array.
saveAllJobsOk(st) == isStorageAvailable(st) /\ st # "full"

saveAllJobs(st, b, jobs) == IF saveAllJobsOk(st) THEN JobsBlob(jobs) ELSE b

\* getJob answering with the first stored record instead of the match.
getJob_first(st, b, id) ==
    LET jobs == getAllJobs(st, b)
    IN IF \E i \in 1..Len(jobs) : jobs[i].id = id THEN <<jobs[1]>> ELSE <<>>

\* getJob(id): the record as a one-element sequence, <<>> for null.
getJob(st, b, id) ==
    LET jobs == getAllJobs(st, b)
        hits == { i \in 1..Len(jobs) : jobs[i].id = id }
    IN IF hits = {} THEN <<>>
       ELSE <<jobs[CHOOSE i \in hits : \A k \in hits : i <= k]>>

\* The record saveJob builds.
NewLocalJob(jobData, id, t) ==
    Spread(jobData, [id |-> id, dateAdded |-> t, lastUpdated |-> t])

\* updateJob stamping dateApplied itself when the status becomes "Applied".
UpdatedLocalJob_stamp(job, updates, t) ==
    Spread(Spread(job, updates),
           [id |-> job.id, dateAdded |-> job.dateAdded, lastUpdated |-> t,
            dateApplied |-> IF "status" \in DOMAIN updates /\ updates.status = "Applied"
                            THEN t ELSE Spread(job, updates).dateApplied])

\* updateJob without the two lines that restore id and dateAdded.
UpdatedLocalJob_spread(job, updates, t) ==
    Spread(Spread(job, updates), [lastUpdated |-> t])

\* The record updateJob builds from the stored one.
UpdatedLocalJob(job, updates, t) ==
    Spread(Spread(job, updates),
           [id |-> job.id, dateAdded |-> job.dateAdded, lastUpdated |-> t])

IndexOf(jobs, id) ==
    LET hits == { i \in 1..Len(jobs) : jobs[i].id = id }
    IN IF hits = {} THEN 0 ELSE CHOOSE i \in hits : \A k \in hits : i <= k

\* The assignment overwriting every element of the array.
ReplaceAt_all(jobs, i, j) == [k \in 1..Len(jobs) |-> j]

ReplaceAt(jobs, i, j) == [k \in 1..Len(jobs) |-> IF k = i THEN j ELSE jobs[k]]

\* The filter dropping the first element, whatever its id.
FilterOutId_head(jobs, id) == IF jobs = <<>> THEN <<>> ELSE Tail(jobs)

RECURSIVE FilterOutId(_, _)
FilterOutId(jobs, id) ==
    IF jobs = <<>> THEN <<>>
    ELSE IF Head(jobs).id = id THEN FilterOutId(Tail(jobs), id)
         ELSE <<Head(jobs)>> \o FilterOutId(Tail(jobs), id)

StorageModes == {"ok", "full", "down"}

\* Shape of the record kept of the last backend call.  ret holds the returned
\* records (<<>> for null), ok the boolean result, threw whether the call
\* rejected, wrote whether the Local blob was written, src the table rows the
\* returned records were built from.
OpRec(op, backend, id, ret, ok, threw, wrote, src) ==
    [op |-> op, backend |-> backend, id |-> id, ret |-> ret, ok |-> ok,
     threw |-> threw, wrote |-> wrote, src |-> src, gone |-> {}, new |-> {},
     storeError |-> <<>>, message |-> <<>>,
     requests |-> IF backend = "remote" THEN 1 ELSE 0]

\* The same for updateJob, with the update object and the record as it was
\* stored before the call (<<>> when none matched).
UpdRec(backend, id, updates, prev, ret, threw, wrote, src) ==
    [op |-> "updateJob", backend |-> backend, id |-> id, ret |-> ret, ok |-> ~threw,
     threw |-> threw, wrote |-> wrote, src |-> src, gone |-> {}, new |-> {},
     storeError |-> <<>>, message |-> <<>>,
     requests |-> IF backend = "remote" THEN 1 ELSE 0,
     updates |-> updates, prev |-> prev]

\* An error answer of the store other than the no-rows marker PGRST116.
StoreError == [code |-> "08006", message |-> "connection failure"]

\* The text each Remote method puts before the store's message.
ErrorPrefix ==
    [saveJob |-> "Failed to save job", getJob |-> "Failed to get job",
     getAllJobs |-> "Failed to get jobs", updateJob |-> "Failed to update job",
     deleteJob |-> "Failed to delete job"]

\* A thrown message that leaves the store's message out.
ThrownMessage_generic(op, error) == <<ErrorPrefix[op], "unknown error">>

\* new Error(`Failed to ...: ${error.message}`), as the pair <<prefix, message>>.
ThrownMessage(op, error) == <<ErrorPrefix[op], error.message>>

\* A call of the Remote Backend that the store answered with error: it throws
\* the message built from it.
Rejected(rec, error) ==
    [rec EXCEPT !.storeError = <<error>>, !.message = ThrownMessage(rec.op, error)]

\* A call of the Remote Backend, with the rows it took out of the table (gone)
\* and the rows it put in (new).
WithDelta(rec, tbl, tblAfter) ==
    [rec EXCEPT !.gone = tbl \ tblAfter, !.new = tblAfter \ tbl]

NoOp == OpRec("none", "none", NoId, <<>>, TRUE, FALSE, FALSE, {})

\* Partial<JobPosting> objects the callers pass to updateJob.
StatusUpdates == { [status |-> s] : s \in {"Applied", "Interview"} }
Updates == {[status |-> "Applied"], [notes |-> "n", id |-> 99, dateAdded |-> 0]}

Tick ==
    /\ now < MaxClock
    /\ now' = now + 1
    /\ UNCHANGED <<appLoading, loads, calls, peer, xf, factory, contactJob, nextId, storage, blob, table, userId, lastOp, appJobs, appError, call, mig, prompt>>

\* localStorage changes condition (quota reached or freed, storage disabled).
StorageChange ==
    /\ \E st \in StorageModes \ {storage} : storage' = st
    /\ UNCHANGED <<appLoading, loads, calls, peer, xf, factory, contactJob, now, nextId, blob, table, userId, lastOp, appJobs, appError, call, mig, prompt>>

\* saveJob(jobData) of the Local Backend.  The probe of getAllJobs sees the
\* store as it is when the call starts, the probe and setItem of saveAllJobs
\* as it is after (stWrite).
LocalSaveJob(jobData, stWrite) ==
    LET newJob == NewLocalJob(jobData, nextId, now)
        jobs == Append(getAllJobs(storage, blob), newJob)
    IN /\ nextId <= MaxIds
       /\ nextId' = nextId + 1
       /\ storage' = stWrite
       /\ blob' = saveAllJobs(stWrite, blob, jobs)
       /\ lastOp' = OpRec("saveJob", "local", NoId, <<newJob>>, TRUE, FALSE,
                          saveAllJobsOk(stWrite), {})
       /\ UNCHANGED <<appLoading, loads, calls, peer, xf, factory, contactJob, now, table, userId, appJobs, appError, call, mig, prompt>>

LocalGetJob(id) ==
    /\ lastOp' = OpRec("getJob", "local", id, getJob(storage, blob, id), TRUE, FALSE, FALSE, {})
    /\ UNCHANGED <<appLoading, loads, calls, peer, xf, factory, contactJob, now, nextId, storage, blob, table, userId, appJobs, appError, call, mig, prompt>>

LocalGetAllJobs ==
    /\ lastOp' = OpRec("getAllJobs", "local", NoId, getAllJobs(storage, blob), TRUE, FALSE, FALSE, {})
    /\ UNCHANGED <<appLoading, loads, calls, peer, xf, factory, contactJob, now, nextId, storage, blob, table, userId, appJobs, appError, call, mig, prompt>>

\* updateJob(id, updates) of the Local Backend: blob and result.
LocalUpdateBlob(st, b, id, updates, t) ==
    LET jobs == getAllJobs(st, b)
        index == IndexOf(jobs, id)
    IN IF index = 0 THEN b
       ELSE saveAllJobs(st, b, ReplaceAt(jobs, index, UpdatedLocalJob(jobs[index], updates, t)))

LocalUpdateRet(st, b, id, updates, t) ==
    LET jobs == getAllJobs(st, b)
        index == IndexOf(jobs, id)
    IN IF index = 0 THEN <<>> ELSE <<UpdatedLocalJob(jobs[index], updates, t)>>

LocalUpdateJob(id, updates) ==
    /\ blob' = LocalUpdateBlob(storage, blob, id, updates, now)
    /\ lastOp' = UpdRec("local", id, updates, getJob(storage, blob, id),
                        LocalUpdateRet(storage, blob, id, updates, now), FALSE,
                        IndexOf(getAllJobs(storage, blob), id) # 0 /\ saveAllJobsOk(storage), {})
    /\ UNCHANGED <<appLoading, loads, calls, peer, xf, factory, contactJob, now, nextId, storage, table, userId, appJobs, appError, call, mig, prompt>>

\* deleteJob(id) of the Local Backend.
LocalDeleteJob(id) ==
    LET jobs == getAllJobs(storage, blob)
        filteredJobs == FilterOutId(jobs, id)
        found == Len(filteredJobs) # Len(jobs)
    IN /\ blob' = IF found THEN saveAllJobs(storage, blob, filteredJobs) ELSE blob
       /\ lastOp' = OpRec("deleteJob", "local", id, <<>>, found /\ saveAllJobsOk(storage),
                          FALSE, found /\ saveAllJobsOk(storage), {})
       /\ UNCHANGED <<appLoading, loads, calls, peer, xf, factory, contactJob, now, nextId, storage, table, userId, appJobs, appError, call, mig, prompt>>

(***************************************************************************)
(* Field transformers (jobTransformers)                                     *)
(***************************************************************************)
\* The column map with linkedin_url and application_link exchanged.
Col_swapped ==
    [jobId |-> "job_id", jobTitle |-> "job_title", company |-> "company",
     location |-> "location", description |-> "description",
     linkedInUrl |-> "application_link", applicationLink |-> "linkedin_url",
     applicationRequirements |-> "application_requirements",
     applicationDeadline |-> "application_deadline",
     referralMessage |-> "referral_message",
     referralOutreachStatus |-> "referral_outreach_status", notes |-> "notes",
     status |-> "status", referralContacts |-> "referral_contacts",
     dateApplied |-> "date_applied"]

\* Column of the job_postings table that holds a payload field.
Col ==
    [jobId |-> "job_id", jobTitle |-> "job_title", company |-> "company",
     location |-> "location", description |-> "description",
     linkedInUrl |-> "linkedin_url", applicationLink |-> "application_link",
     applicationRequirements |-> "application_requirements",
     applicationDeadline |-> "application_deadline",
     referralMessage |-> "referral_message",
     referralOutreachStatus |-> "referral_outreach_status", notes |-> "notes",
     status |-> "status", referralContacts |-> "referral_contacts",
     dateApplied |-> "date_applied"]

FieldOf(c) == CHOOSE f \in PayloadFields : Col[f] = c

\* A referral_contacts column holding null.
NullList == <<[null |-> TRUE]>>

\* dbRowToJobPosting(row): enumerations are revalidated, a null contact list
\* becomes [], user_id is dropped.
dbRowToJobPosting(row) ==
    [id |-> row.id,
     jobId |-> row.job_id,
     jobTitle |-> row.job_title,
     company |-> row.company,
     location |-> row.location,
     description |-> row.description,
     linkedInUrl |-> row.linkedin_url,
     applicationLink |-> row.application_link,
     applicationRequirements |-> row.application_requirements,
     applicationDeadline |-> row.application_deadline,
     referralMessage |-> row.referral_message,
     referralOutreachStatus |->
         IF isValidReferralOutreachStatus(row.referral_outreach_status)
         THEN row.referral_outreach_status ELSE "Have to Find",
     notes |-> row.notes,
     status |-> IF isValidApplicationStatus(row.status) THEN row.status ELSE "Saved",
     referralContacts |-> IF row.referral_contacts = NullList THEN <<>>
                          ELSE row.referral_contacts,
     dateAdded |-> row.date_added,
     dateApplied |-> row.date_applied,
     lastUpdated |-> row.last_updated]

\* jobPostingToDbInsert(job, userId): the owner plus one column per payload
\* field; a field the payload lacks is left out.
jobPostingToDbInsert(job, uid) ==
    [c \in {"user_id"} \cup { Col[f] : f \in (DOMAIN job) \cap PayloadFields } |->
        IF c = "user_id" THEN uid ELSE job[FieldOf(c)]]

\* The conversion that keeps last_updated only.
jobUpdatesToDbUpdate_stampOnly(updates, t) == [last_updated |-> t]

\* The conversion that copies an id named by the update object as well.
jobUpdatesToDbUpdate_withId(updates, t) ==
    [c \in {"last_updated"} \cup { Col[f] : f \in (DOMAIN updates) \cap PayloadFields }
            \cup ({"id"} \cap DOMAIN updates) |->
        IF c = "last_updated" THEN t
        ELSE IF c = "id" THEN updates.id ELSE updates[FieldOf(c)]]

\* jobUpdatesToDbUpdate(updates): one column per payload field present, and
\* last_updated always.  A property set to undefined is one that is not in the
\* object's domain: the tests `!== undefined` do not tell the two apart.
jobUpdatesToDbUpdate(updates, t) ==
    [c \in {"last_updated"} \cup { Col[f] : f \in (DOMAIN updates) \cap PayloadFields } |->
        IF c = "last_updated" THEN t ELSE updates[FieldOf(c)]]

(***************************************************************************)
(* Remote Backend (SupabaseStorageService) over the job_postings table      *)
(***************************************************************************)
\* Column defaults of the table: id, date_added and last_updated are assigned
\* by the store.
RowDefaults(id, t) ==
    [id |-> id, job_id |-> NullStr, linkedin_url |-> NullStr, application_link |-> NullStr,
     application_requirements |-> NullStr, application_deadline |-> NullStr,
     referral_message |-> "", referral_outreach_status |-> "Have to Find", notes |-> "",
     status |-> "Saved", referral_contacts |-> <<>>, date_added |-> t,
     date_applied |-> NoDate, last_updated |-> t]

InsertedRow(dbInsert, id, t) == Spread(RowDefaults(id, t), dbInsert)

\* The query without its owner predicate.
SelectOwned_anyOwner(tbl, id, uid) == { r \in tbl : r.id = id }

\* .eq('id', id).eq('user_id', this.userId)
SelectOwned(tbl, id, uid) == { r \in tbl : r.id = id /\ r.user_id = uid }

\* .eq('user_id', this.userId)
SelectAllOwned(tbl, uid) == { r \in tbl : r.user_id = uid }

\* .order('date_added', { ascending: false }) of a set of rows.
RECURSIVE OrderNewestFirst(_)
OrderNewestFirst(rows) ==
    IF rows = {} THEN <<>>
    ELSE LET r == CHOOSE x \in rows :
                    \A y \in rows : x.date_added > y.date_added
                                    \/ (x.date_added = y.date_added /\ x.id <= y.id)
         IN <<r>> \o OrderNewestFirst(rows \ {r})

MapRows(rows) == [i \in 1..Len(rows) |-> dbRowToJobPosting(rows[i])]

\* The update matching on the identifier alone.
UpdatedRows_anyOwner(tbl, id, uid, dbUpdate) ==
    { Spread(r, dbUpdate) : r \in { x \in tbl : x.id = id } }

\* The rows .update(dbUpdate) writes: those selected, with dbUpdate's columns.
UpdatedRows(tbl, id, uid, dbUpdate) ==
    { Spread(r, dbUpdate) : r \in SelectOwned(tbl, id, uid) }

RemoteSaveJob(jobData, fail) ==
    LET row == InsertedRow(jobPostingToDbInsert(jobData, userId), nextId, now)
    IN /\ nextId <= MaxIds
       /\ nextId' = nextId + 1
       /\ table' = IF fail THEN table ELSE table \cup {row}
       /\ lastOp' = WithDelta(
                        IF fail THEN Rejected(OpRec("saveJob", "remote", NoId, <<>>, FALSE, TRUE, FALSE, {}), StoreError)
                        ELSE OpRec("saveJob", "remote", NoId, <<dbRowToJobPosting(row)>>, TRUE,
                                   FALSE, FALSE, {row}),
                        table, table')
       /\ UNCHANGED <<appLoading, loads, calls, peer, xf, factory, contactJob, now, storage, blob, userId, appJobs, appError, call, mig, prompt>>

\* Result of getJob(id): .single() yields the row when exactly one matches and
\* the PGRST116 error, answered with null, otherwise.
RemoteGetRet(tbl, id, uid) ==
    LET rows == SelectOwned(tbl, id, uid)
    IN IF Cardinality(rows) = 1 THEN <<dbRowToJobPosting(CHOOSE r \in rows : TRUE)>> ELSE <<>>

RemoteGetJob(id, fail) ==
    /\ lastOp' = IF fail THEN Rejected(OpRec("getJob", "remote", id, <<>>, FALSE, TRUE, FALSE, {}), StoreError)
                 ELSE OpRec("getJob", "remote", id, RemoteGetRet(table, id, userId), TRUE,
                            FALSE, FALSE, SelectOwned(table, id, userId))
    /\ UNCHANGED <<appLoading, loads, calls, peer, xf, factory, contactJob, now, nextId, storage, blob, table, userId, appJobs, appError, call, mig, prompt>>

RemoteGetAllJobs(fail) ==
    /\ lastOp' = IF fail THEN Rejected(OpRec("getAllJobs", "remote", NoId, <<>>, FALSE, TRUE, FALSE, {}), StoreError)
                 ELSE OpRec("getAllJobs", "remote", NoId,
                            MapRows(OrderNewestFirst(SelectAllOwned(table, userId))), TRUE,
                            FALSE, FALSE, SelectAllOwned(table, userId))
    /\ UNCHANGED <<appLoading, loads, calls, peer, xf, factory, contactJob, now, nextId, storage, blob, table, userId, appJobs, appError, call, mig, prompt>>

RemoteUpdateTable(tbl, id, uid, updates, t) ==
    (tbl \ SelectOwned(tbl, id, uid)) \cup UpdatedRows(tbl, id, uid, jobUpdatesToDbUpdate(updates, t))

RemoteUpdateRet(tbl, id, uid, updates, t) ==
    LET rows == UpdatedRows(tbl, id, uid, jobUpdatesToDbUpdate(updates, t))
    IN IF Cardinality(rows) = 1 THEN <<dbRowToJobPosting(CHOOSE r \in rows : TRUE)>> ELSE <<>>

RemoteUpdateJob(id, updates, fail) ==
    /\ table' = IF fail THEN table ELSE RemoteUpdateTable(table, id, userId, updates, now)
    /\ lastOp' = WithDelta(
                     IF fail THEN Rejected(UpdRec("remote", id, updates, <<>>, <<>>, TRUE, FALSE, {}), StoreError)
                     ELSE UpdRec("remote", id, updates, RemoteGetRet(table, id, userId),
                                 RemoteUpdateRet(table, id, userId, updates, now), FALSE, FALSE,
                                 UpdatedRows(table, id, userId, jobUpdatesToDbUpdate(updates, now))),
                     table, table')
    /\ UNCHANGED <<appLoading, loads, calls, peer, xf, factory, contactJob, now, nextId, storage, blob, userId, appJobs, appError, call, mig, prompt>>

RemoteDeleteJob(id, fail) ==
    /\ table' = IF fail THEN table ELSE table \ SelectOwned(table, id, userId)
    /\ lastOp' = WithDelta(
                     IF fail THEN Rejected(OpRec("deleteJob", "remote", id, <<>>, FALSE, TRUE, FALSE, {}), StoreError)
                     ELSE OpRec("deleteJob", "remote", id, <<>>, TRUE, FALSE, FALSE, {}),
                     table, table')
    /\ UNCHANGED <<appLoading, loads, calls, peer, xf, factory, contactJob, now, nextId, storage, blob, userId, appJobs, appError, call, mig, prompt>>

Ids == 1..MaxIds

\* The AppContext.updateJob call in flight: its position (awaiting getJob,
\* awaiting updateJob), its arguments and the update object it built.
NoCall == [pc |-> "idle", id |-> NoId, updates |-> <<>>, finalUpdates |-> <<>>]

\* No updateJob call in flight.
NoCalls == [c \in 1..MaxCalls |-> NoCall]
\* MigrationResult as migrateToCloud initialises it.
NoResult == [success |-> FALSE, migratedCount |-> 0, totalCount |-> 0, errors |-> <<>>]

\* The migrateToCloud call: localJobs is the array read at the start, k the
\* loop position, submitted the payloads handed to the Remote saveJob so far,
\* before the blob as it was when the call started, saved the ids of the Local
\* records whose Remote saveJob resolved, over every call made so far.
NoMig == [pc |-> "idle", localJobs |-> <<>>, k |-> 0, result |-> NoResult,
          submitted |-> <<>>, before |-> NoBlob, saved |-> <<>>]

\* MigrationPrompt: its state, its result (<<>> for null), the number of
\* handleMigrate calls so far and the blob as it was when the prompt opened.
NoPrompt == [state |-> "hidden", result |-> <<>>, attempts |-> 0, local0 |-> NoBlob]

\* No transformer call made yet.
NoXf == [fn |-> "none", input |-> <<>>, uid |-> NoUser, row |-> <<>>, out |-> <<>>,
         updates |-> <<>>, dbUpdate |-> <<>>, updated |-> <<>>, at |-> 0]

\* currentService = null.
NoService == [n |-> 0, kind |-> "none", userId |-> NoUser]

\* A StorageServiceFactory as constructed: nothing cached.  made counts the
\* backend instances constructed so far, last is the last call with its
\* result and the number of instances constructed before it, prev the
\* getService call before it (<<>> when none) and cleared whether clearCache
\* ran since that call.
NoFactory ==
    [currentService |-> NoService, currentUserId |-> NoUser, made |-> 0,
     last |-> [op |-> "none", userId |-> NoUser, ret |-> NoService, prev |-> <<>>,
               cleared |-> FALSE, before |-> 0],
     prev |-> <<>>, cleared |-> FALSE]

\* The job posting ContactService works on, before any contact is added:
\* made counts the contact ids generated, op is the last call.
NoContactJob ==
    [job |-> [referralContacts |-> <<>>, lastUpdated |-> 1], made |-> 0,
     op |-> [fn |-> "none", contactId |-> NoId, status |-> "none", at |-> NoDate]]

InitLocal ==
    /\ now = 1
    /\ nextId = 1
    /\ appLoading = TRUE
    /\ loads = <<>>
    /\ calls = NoCalls
    /\ storage \in StorageModes
    /\ blob \in {NoBlob, CorruptBlob}
    /\ table = {}
    /\ userId = NoUser
    /\ lastOp = NoOp
    /\ appJobs = <<>>
    /\ appError = FALSE
    /\ call = NoCall
    /\ mig = NoMig
    /\ prompt = NoPrompt
    /\ peer = NoOp
    /\ xf = NoXf
    /\ factory = NoFactory
    /\ contactJob = NoContactJob

NextLocal ==
    \/ Tick
    \/ StorageChange
    \/ \E p \in Payloads, st \in StorageModes : LocalSaveJob(p, st)
    \/ \E id \in Ids : LocalGetJob(id)
    \/ LocalGetAllJobs
    \/ \E id \in Ids, u \in Updates : LocalUpdateJob(id, u)
    \/ \E id \in Ids : LocalDeleteJob(id)

SpecLocal == InitLocal /\ [][NextLocal]_vars

\* Rows the table holds before the session: one of each owner.
SeedRow(id, uid, title) ==
    InsertedRow(jobPostingToDbInsert(MakePayload(title, NullStr, "Saved", NoDate), uid), id, 1)

SeedId == [u1 |-> 101, u2 |-> 102]
SeedTable == { SeedRow(SeedId[u], u, "S") : u \in Users }
RemoteIds == Ids \cup { SeedId[u] : u \in Users }

InitRemote ==
    /\ now = 1
    /\ nextId = 1
    /\ appLoading = TRUE
    /\ loads = <<>>
    /\ calls = NoCalls
    /\ storage = "ok"
    /\ blob = NoBlob
    /\ table = SeedTable
    /\ userId = "u1"
    /\ lastOp = NoOp
    /\ appJobs = <<>>
    /\ appError = FALSE
    /\ call = NoCall
    /\ mig = NoMig
    /\ prompt = NoPrompt
    /\ peer = NoOp
    /\ xf = NoXf
    /\ factory = NoFactory
    /\ contactJob = NoContactJob

NextRemote ==
    \/ Tick
    \/ \E fail \in BOOLEAN : RemoteSaveJob(MakePayload("A", "req", "Saved", NoDate), fail)
    \/ \E id \in RemoteIds, fail \in BOOLEAN : RemoteGetJob(id, fail)
    \/ \E fail \in BOOLEAN : RemoteGetAllJobs(fail)
    \/ \E id \in RemoteIds, u \in Updates, fail \in BOOLEAN : RemoteUpdateJob(id, u, fail)
    \/ \E id \in RemoteIds, fail \in BOOLEAN : RemoteDeleteJob(id, fail)

SpecRemote == InitRemote /\ [][NextRemote]_vars

(***************************************************************************)
(* Migration routine (MigrationService) and MigrationPrompt                 *)
(***************************************************************************)
\* x || null of an optional string field, undefined when the record lacks it.
OrNull(job, f) == IF f \in DOMAIN job /\ TruthyStr(job[f]) THEN job[f] ELSE NullStr

\* The payload migrateToCloud builds from a Local record: id, dateAdded and
\* lastUpdated are left out.
MigrationPayload(job) ==
    [jobId |-> job.jobId,
     jobTitle |-> job.jobTitle,
     company |-> job.company,
     location |-> job.location,
     description |-> job.description,
     linkedInUrl |-> job.linkedInUrl,
     applicationLink |-> job.applicationLink,
     applicationRequirements |-> OrNull(job, "applicationRequirements"),
     applicationDeadline |-> OrNull(job, "applicationDeadline"),
     referralMessage |-> job.referralMessage,
     referralOutreachStatus |-> job.referralOutreachStatus,
     notes |-> job.notes,
     status |-> job.status,
     referralContacts |-> job.referralContacts,
     dateApplied |-> job.dateApplied]

\* The error message of a failed record names its title and employer.
MigrationError(job) == [jobTitle |-> job.jobTitle, company |-> job.company]

\* Counting a record as migrated before its save settled.
CountAfterSave_always(count, failed) == count + 1

\* migratedCount after the save of one record settled.
CountAfterSave(count, failed) == IF failed THEN count ELSE count + 1

\* A loop that a failed save ends.
NextRecord_abort(k, n, failed) == IF failed THEN n + 1 ELSE k + 1

\* Loop position after the save of record k settled: the next record, also
\* after a failure.
NextRecord(k, n, failed) == k + 1

\* result.success once the loop is over.
MigrationSuccess(result) == result.migratedCount = result.totalCount

\* A migration that removes the Local data itself once every record is saved.
LocalAfterMigration_clear(b, result) == IF result.success THEN NoBlob ELSE b

\* What migrateToCloud leaves under STORAGE_KEY: it only reads.
LocalAfterMigration(b, result) == b

\* clearLocalData(): removeItem(STORAGE_KEY).
clearLocalData(b) == NoBlob

\* Clearing as soon as some record was migrated.
ClearsLocalData_partial(result) == result.migratedCount > 0

\* handleMigrate clears the Local data only after a migration that succeeded.
ClearsLocalData(result) == result.success

\* The state handleMigrate shows for a result.
PromptStateFor(result) ==
    IF result.success THEN "success"
    ELSE IF result.migratedCount > 0 THEN "partial" ELSE "error"

\* handleMigrate up to its await: setState('migrating') and migrateToCloud up
\* to the first save (or its return when there is nothing to migrate).
PromptMigrate ==
    LET localJobs == getAllJobs(storage, blob)
        result == [NoResult EXCEPT !.totalCount = Len(localJobs)]
    IN /\ prompt.state \in {"prompt", "partial", "error"}
       /\ mig.pc = "idle"
       /\ prompt.attempts < MaxAttempts
       /\ prompt' = [prompt EXCEPT !.state = "migrating", !.attempts = @ + 1]
       /\ mig' = IF Len(localJobs) = 0
                 THEN [pc |-> "returned", localJobs |-> localJobs, k |-> 1,
                       result |-> [result EXCEPT !.success = TRUE],
                       submitted |-> <<>>, before |-> blob, saved |-> mig.saved]
                 ELSE [pc |-> "loop", localJobs |-> localJobs, k |-> 1, result |-> result,
                       submitted |-> <<>>, before |-> blob, saved |-> mig.saved]
       /\ UNCHANGED <<appLoading, loads, calls, peer, xf, factory, contactJob, now, nextId, storage, blob, table, userId, lastOp, appJobs, appError, call>>

\* One turn of the loop: the Remote saveJob of record k settles, rejected
\* (failed) or not; after the last record the result is completed and returned.
MigrateSave(failed) ==
    LET job == mig.localJobs[mig.k]
        jobData == MigrationPayload(job)
        row == InsertedRow(jobPostingToDbInsert(jobData, userId), nextId, now)
        counted == [mig.result EXCEPT
                       !.migratedCount = CountAfterSave(@, failed),
                       !.errors = IF failed THEN Append(@, MigrationError(job)) ELSE @]
        k2 == NextRecord(mig.k, Len(mig.localJobs), failed)
        done == k2 > Len(mig.localJobs)
    IN /\ mig.pc = "loop"
       /\ nextId' = nextId + 1
       /\ table' = IF failed THEN table ELSE table \cup {row}
       /\ blob' = IF done THEN LocalAfterMigration(blob, [counted EXCEPT !.success = MigrationSuccess(counted)])
                  ELSE blob
       /\ mig' = [mig EXCEPT
                     !.k = k2,
                     !.submitted = Append(@, jobData),
                     !.saved = IF failed THEN @ ELSE Append(@, job.id),
                     !.result = IF done THEN [counted EXCEPT !.success = MigrationSuccess(counted)]
                                ELSE counted,
                     !.pc = IF done THEN "returned" ELSE "loop"]
       /\ UNCHANGED <<appLoading, loads, calls, peer, xf, factory, contactJob, now, storage, userId, lastOp, appJobs, appError, call, prompt>>

\* handleMigrate after its await: setResult, clearLocalData after a success,
\* and the state that shows the outcome.
PromptShowResult ==
    /\ mig.pc = "returned"
    /\ prompt.state = "migrating"
    /\ blob' = IF ClearsLocalData(mig.result) THEN clearLocalData(blob) ELSE blob
    /\ prompt' = [prompt EXCEPT !.state = PromptStateFor(mig.result), !.result = <<mig.result>>]
    /\ mig' = [mig EXCEPT !.pc = "idle"]
    /\ UNCHANGED <<appLoading, loads, calls, peer, xf, factory, contactJob, now, nextId, storage, table, userId, lastOp, appJobs, appError, call>>

\* "Skip" of the first screen: handleSkip clears the Local data and closes.
PromptSkip ==
    /\ prompt.state = "prompt"
    /\ blob' = clearLocalData(blob)
    /\ prompt' = [prompt EXCEPT !.state = "closed"]
    /\ UNCHANGED <<appLoading, loads, calls, peer, xf, factory, contactJob, now, nextId, storage, table, userId, lastOp, appJobs, appError, call, mig>>

\* "Continue" / "Continue Anyway": onComplete closes the prompt.
PromptContinue ==
    /\ prompt.state \in {"success", "partial"}
    /\ prompt' = [prompt EXCEPT !.state = "closed"]
    /\ UNCHANGED <<appLoading, loads, calls, peer, xf, factory, contactJob, now, nextId, storage, blob, table, userId, lastOp, appJobs, appError, call, mig>>

\* "Skip for Now" of the error screen: onSkip closes the prompt.
PromptSkipForNow ==
    /\ prompt.state = "error"
    /\ prompt' = [prompt EXCEPT !.state = "closed"]
    /\ UNCHANGED <<appLoading, loads, calls, peer, xf, factory, contactJob, now, nextId, storage, blob, table, userId, lastOp, appJobs, appError, call, mig>>

\* AuthenticatedApp at a later sign-in: hasLocalData() opens a new prompt.
PromptReopen ==
    /\ prompt.state = "closed"
    /\ Len(getAllJobs(storage, blob)) > 0
    /\ prompt' = [prompt EXCEPT !.state = "prompt", !.result = <<>>, !.local0 = blob]
    /\ UNCHANGED <<appLoading, loads, calls, peer, xf, factory, contactJob, now, nextId, storage, blob, table, userId, lastOp, appJobs, appError, call, mig>>

\* Records the Local Backend holds when the user signs in: saved earlier by
\* saveJob, with empty, null or filled application requirements.
LocalSeedJob(i, req) == NewLocalJob(MakePayload("A", req, "Saved", NoDate), 200 + i, 1)

LocalSeedReqs == {NullStr, "", "req"}

LocalSeeds ==
    UNION { { [i \in 1..n |-> LocalSeedJob(i, reqs[i])] : reqs \in [1..n -> LocalSeedReqs] }
            : n \in 0..MaxLocal }

InitMigration ==
    /\ now = 1
    /\ nextId = 1
    /\ appLoading = TRUE
    /\ loads = <<>>
    /\ calls = NoCalls
    /\ storage = "ok"
    /\ \E jobs \in LocalSeeds :
          /\ blob = (IF jobs = <<>> THEN NoBlob ELSE JobsBlob(jobs))
          /\ prompt = [state |-> "prompt", result |-> <<>>, attempts |-> 0,
                       local0 |-> (IF jobs = <<>> THEN NoBlob ELSE JobsBlob(jobs))]
    /\ table = SeedTable
    /\ userId = "u1"
    /\ lastOp = NoOp
    /\ peer = NoOp
    /\ xf = NoXf
    /\ factory = NoFactory
    /\ contactJob = NoContactJob
    /\ appJobs = <<>>
    /\ appError = FALSE
    /\ call = NoCall
    /\ mig = NoMig

NextMigration ==
    \/ Tick
    \/ PromptMigrate
    \/ \E failed \in BOOLEAN : MigrateSave(failed)
    \/ PromptShowResult
    \/ PromptSkip
    \/ PromptContinue
    \/ PromptSkipForNow
    \/ PromptReopen

SpecMigration == InitMigration /\ [][NextMigration]_vars

(***************************************************************************)
(* AppContext: the reducer and updateJob / addJob over the selected backend *)
(***************************************************************************)
\* UPDATE_JOB without the test that dateApplied is still unset.
ReducedJob_restamp(job, updates, t) ==
    LET updatedJob == Spread(Spread(job, updates), [lastUpdated |-> t])
    IN IF "status" \in DOMAIN updates /\ updates.status = "Applied" /\ job.status # "Applied"
       THEN Spread(updatedJob, [dateApplied |-> t])
       ELSE updatedJob

\* appReducer, UPDATE_JOB, for the job with the given id.
ReducedJob(job, updates, t) ==
    LET updatedJob == Spread(Spread(job, updates), [lastUpdated |-> t])
    IN IF /\ "status" \in DOMAIN updates /\ updates.status = "Applied"
          /\ job.status # "Applied"
          /\ ~TruthyDate(job.dateApplied)
       THEN Spread(updatedJob, [dateApplied |-> t])
       ELSE updatedJob

ReduceUpdateJob(jobs, id, updates, t) ==
    [i \in 1..Len(jobs) |-> IF jobs[i].id # id THEN jobs[i] ELSE ReducedJob(jobs[i], updates, t)]

\* appReducer, ADD_JOB.
ReduceAddJob(jobs, job) == <<job>> \o jobs

\* The update object updateJob hands to the backend.
FinalUpdates(updates, currentJob, t) ==
    LET finalUpdates == Spread(updates, [lastUpdated |-> t])
    IN IF /\ "status" \in DOMAIN updates /\ updates.status = "Applied"
          /\ currentJob.status # "Applied"
          /\ ~TruthyDate(currentJob.dateApplied)
       THEN Spread(finalUpdates, [dateApplied |-> t])
       ELSE finalUpdates

IsLocal == userId = NoUser

\* addJob(jobData): storageService.saveJob, then ADD_JOB; SET_ERROR when the
\* Remote save rejects.
AppAddJob(jobData, fail) ==
    LET newJob == NewLocalJob(jobData, nextId, now)
        row == InsertedRow(jobPostingToDbInsert(jobData, userId), nextId, now)
    IN /\ nextId <= MaxIds
       /\ call.pc = "idle"
       /\ IsLocal => ~fail
       /\ nextId' = nextId + 1
       /\ blob' = IF IsLocal
                  THEN saveAllJobs(storage, blob, Append(getAllJobs(storage, blob), newJob))
                  ELSE blob
       /\ table' = IF IsLocal \/ fail THEN table ELSE table \cup {row}
       /\ appJobs' = IF fail THEN appJobs
                     ELSE ReduceAddJob(appJobs, IF IsLocal THEN newJob ELSE dbRowToJobPosting(row))
       /\ appError' = (appError \/ fail)
       /\ UNCHANGED <<appLoading, loads, calls, peer, xf, factory, contactJob, now, storage, userId, lastOp, call, mig, prompt>>

\* updateJob(id, updates) up to its first await: the optimistic UPDATE_JOB.
AppUpdateJobStart(id, updates) ==
    /\ call.pc = "idle"
    /\ \E i \in 1..Len(appJobs) : appJobs[i].id = id
    /\ appJobs' = ReduceUpdateJob(appJobs, id, updates, now)
    /\ call' = [pc |-> "getJob", id |-> id, updates |-> updates, finalUpdates |-> <<>>]
    /\ UNCHANGED <<appLoading, loads, calls, peer, xf, factory, contactJob, now, nextId, storage, blob, table, userId, lastOp, appError, mig, prompt>>

\* storageService.getJob(id) settles: rejected (SET_ERROR), null (nothing is
\* persisted) or the stored record, from which finalUpdates is built.
AppUpdateJobGot(fail) ==
    LET currentJob == IF IsLocal THEN getJob(storage, blob, call.id)
                      ELSE RemoteGetRet(table, call.id, userId)
    IN /\ call.pc = "getJob"
       /\ IsLocal => ~fail
       /\ call' = IF fail \/ currentJob = <<>> THEN NoCall
                  ELSE [call EXCEPT !.pc = "updateJob",
                                    !.finalUpdates = FinalUpdates(call.updates, currentJob[1], now)]
       /\ appError' = (appError \/ fail)
       /\ UNCHANGED <<appLoading, loads, calls, peer, xf, factory, contactJob, now, nextId, storage, blob, table, userId, lastOp, appJobs, mig, prompt>>

\* storageService.updateJob(id, finalUpdates) settles.
AppUpdateJobPut(fail) ==
    /\ call.pc = "updateJob"
    /\ IsLocal => ~fail
    /\ blob' = IF IsLocal THEN LocalUpdateBlob(storage, blob, call.id, call.finalUpdates, now)
               ELSE blob
    /\ table' = IF IsLocal \/ fail THEN table
                ELSE RemoteUpdateTable(table, call.id, userId, call.finalUpdates, now)
    /\ call' = NoCall
    /\ appError' = (appError \/ fail)
    /\ UNCHANGED <<appLoading, loads, calls, peer, xf, factory, contactJob, now, nextId, storage, userId, lastOp, appJobs, mig, prompt>>

AppPayload == MakePayload("A", NullStr, "Saved", NoDate)

InitApp ==
    /\ now = 1
    /\ nextId = 1
    /\ appLoading = TRUE
    /\ loads = <<>>
    /\ calls = NoCalls
    /\ storage \in StorageModes
    /\ blob = NoBlob
    /\ userId \in {NoUser, "u1"}
    /\ table = (IF userId = NoUser THEN {} ELSE { r \in SeedTable : r.user_id # userId })
    /\ lastOp = NoOp
    /\ appJobs = <<>>
    /\ appError = FALSE
    /\ call = NoCall
    /\ mig = NoMig
    /\ prompt = NoPrompt
    /\ peer = NoOp
    /\ xf = NoXf
    /\ factory = NoFactory
    /\ contactJob = NoContactJob

NextApp ==
    \/ Tick
    \/ IsLocal /\ StorageChange
    \/ \E fail \in BOOLEAN : AppAddJob(AppPayload, fail)
    \/ \E id \in Ids, u \in StatusUpdates : AppUpdateJobStart(id, u)
    \/ \E fail \in BOOLEAN : AppUpdateJobGot(fail)
    \/ \E fail \in BOOLEAN : AppUpdateJobPut(fail)

SpecApp == InitApp /\ [][NextApp]_vars

(***************************************************************************)
(* AppContext.updateJob calls that overlap: each call is the same three     *)
(* steps, and a second call may start while the first awaits.               *)
(***************************************************************************)
\* updateJob(id, updates) of call c up to its first await.
OverlapUpdateJobStart(c, id, updates) ==
    /\ calls[c].pc = "idle"
    /\ \E i \in 1..Len(appJobs) : appJobs[i].id = id
    /\ appJobs' = ReduceUpdateJob(appJobs, id, updates, now)
    /\ calls' = [calls EXCEPT ![c] = [pc |-> "getJob", id |-> id, updates |-> updates,
                                      finalUpdates |-> <<>>]]
    /\ UNCHANGED <<appLoading, loads, peer, xf, factory, contactJob, now, nextId, storage, blob,
                   table, userId, lastOp, appError, call, mig, prompt>>

\* storageService.getJob(id) of call c settles.
OverlapUpdateJobGot(c, fail) ==
    LET currentJob == IF IsLocal THEN getJob(storage, blob, calls[c].id)
                      ELSE RemoteGetRet(table, calls[c].id, userId)
    IN /\ calls[c].pc = "getJob"
       /\ IsLocal => ~fail
       /\ calls' = [calls EXCEPT ![c] =
                       IF fail \/ currentJob = <<>> THEN NoCall
                       ELSE [calls[c] EXCEPT
                                !.pc = "updateJob",
                                !.finalUpdates = FinalUpdates(calls[c].updates, currentJob[1], now)]]
       /\ appError' = (appError \/ fail)
       /\ UNCHANGED <<appLoading, loads, peer, xf, factory, contactJob, now, nextId, storage, blob,
                      table, userId, lastOp, appJobs, call, mig, prompt>>

\* storageService.updateJob(id, finalUpdates) of call c settles.
OverlapUpdateJobPut(c, fail) ==
    /\ calls[c].pc = "updateJob"
    /\ IsLocal => ~fail
    /\ blob' = IF IsLocal
               THEN LocalUpdateBlob(storage, blob, calls[c].id, calls[c].finalUpdates, now)
               ELSE blob
    /\ table' = IF IsLocal \/ fail THEN table
                ELSE RemoteUpdateTable(table, calls[c].id, userId, calls[c].finalUpdates, now)
    /\ calls' = [calls EXCEPT ![c] = NoCall]
    /\ appError' = (appError \/ fail)
    /\ UNCHANGED <<appLoading, loads, peer, xf, factory, contactJob, now, nextId, storage, userId,
                   lastOp, appJobs, call, mig, prompt>>

NextOverlap ==
    \/ Tick
    \/ \E fail \in BOOLEAN : AppAddJob(AppPayload, fail)
    \/ \E c \in 1..MaxCalls, id \in Ids : OverlapUpdateJobStart(c, id, [status |-> "Applied"])
    \/ \E c \in 1..MaxCalls, fail \in BOOLEAN : OverlapUpdateJobGot(c, fail)
    \/ \E c \in 1..MaxCalls, fail \in BOOLEAN : OverlapUpdateJobPut(c, fail)

SpecOverlap == InitApp /\ [][NextOverlap]_vars

\* Either backend behind the IAsyncStorageService interface.
(***************************************************************************)
(* One caller issuing every call to a Local Backend and to a Remote Backend *)
(* bound to one owner, with no store failure: the k-th record saved gets    *)
(* the k-th identifier in both.  lastOp is the Local result, peer the       *)
(* Remote one.                                                              *)
(***************************************************************************)
BothSaveJob(jobData) ==
    LET newJob == NewLocalJob(jobData, nextId, now)
        row == InsertedRow(jobPostingToDbInsert(jobData, userId), nextId, now)
    IN /\ nextId <= MaxIds
       /\ nextId' = nextId + 1
       /\ blob' = saveAllJobs(storage, blob, Append(getAllJobs(storage, blob), newJob))
       /\ table' = table \cup {row}
       /\ lastOp' = OpRec("saveJob", "local", NoId, <<newJob>>, TRUE, FALSE,
                          saveAllJobsOk(storage), {})
       /\ peer' = OpRec("saveJob", "remote", NoId, <<dbRowToJobPosting(row)>>, TRUE,
                        FALSE, FALSE, {row})
       /\ UNCHANGED <<appLoading, loads, calls, now, storage, userId, appJobs, appError, call, mig, prompt,
                      xf, factory, contactJob>>

BothGetJob(id) ==
    /\ lastOp' = OpRec("getJob", "local", id, getJob(storage, blob, id), TRUE, FALSE, FALSE, {})
    /\ peer' = OpRec("getJob", "remote", id, RemoteGetRet(table, id, userId), TRUE, FALSE,
                     FALSE, SelectOwned(table, id, userId))
    /\ UNCHANGED <<appLoading, loads, calls, now, nextId, storage, blob, table, userId, appJobs, appError, call, mig,
                   prompt, xf, factory, contactJob>>

BothGetAllJobs ==
    /\ lastOp' = OpRec("getAllJobs", "local", NoId, getAllJobs(storage, blob), TRUE, FALSE,
                       FALSE, {})
    /\ peer' = OpRec("getAllJobs", "remote", NoId,
                     MapRows(OrderNewestFirst(SelectAllOwned(table, userId))), TRUE, FALSE,
                     FALSE, SelectAllOwned(table, userId))
    /\ UNCHANGED <<appLoading, loads, calls, now, nextId, storage, blob, table, userId, appJobs, appError, call, mig,
                   prompt, xf, factory, contactJob>>

BothUpdateJob(id, updates) ==
    /\ blob' = LocalUpdateBlob(storage, blob, id, updates, now)
    /\ table' = RemoteUpdateTable(table, id, userId, updates, now)
    /\ lastOp' = UpdRec("local", id, updates, getJob(storage, blob, id),
                        LocalUpdateRet(storage, blob, id, updates, now), FALSE,
                        IndexOf(getAllJobs(storage, blob), id) # 0 /\ saveAllJobsOk(storage), {})
    /\ peer' = UpdRec("remote", id, updates, RemoteGetRet(table, id, userId),
                      RemoteUpdateRet(table, id, userId, updates, now), FALSE, FALSE,
                      UpdatedRows(table, id, userId, jobUpdatesToDbUpdate(updates, now)))
    /\ UNCHANGED <<appLoading, loads, calls, now, nextId, storage, userId, appJobs, appError, call, mig, prompt,
                   xf, factory, contactJob>>

BothDeleteJob(id) ==
    LET jobs == getAllJobs(storage, blob)
        filteredJobs == FilterOutId(jobs, id)
        found == Len(filteredJobs) # Len(jobs)
    IN /\ blob' = IF found THEN saveAllJobs(storage, blob, filteredJobs) ELSE blob
       /\ table' = table \ SelectOwned(table, id, userId)
       /\ lastOp' = OpRec("deleteJob", "local", id, <<>>, found /\ saveAllJobsOk(storage),
                          FALSE, found /\ saveAllJobsOk(storage), {})
       /\ peer' = OpRec("deleteJob", "remote", id, <<>>, TRUE, FALSE, FALSE, {})
       /\ UNCHANGED <<appLoading, loads, calls, now, nextId, storage, userId, appJobs, appError, call, mig, prompt,
                      xf, factory, contactJob>>

InitBoth ==
    /\ now = 1
    /\ nextId = 1
    /\ appLoading = TRUE
    /\ loads = <<>>
    /\ calls = NoCalls
    /\ storage = "ok"
    /\ blob = NoBlob
    /\ userId = "u1"
    /\ table = { r \in SeedTable : r.user_id # userId }
    /\ lastOp = NoOp
    /\ peer = NoOp
    /\ appJobs = <<>>
    /\ appError = FALSE
    /\ call = NoCall
    /\ mig = NoMig
    /\ prompt = NoPrompt
    /\ xf = NoXf
    /\ factory = NoFactory
    /\ contactJob = NoContactJob

NextBoth ==
    \/ Tick
    \/ \E p \in Payloads : BothSaveJob(p)
    \/ \E id \in Ids : BothGetJob(id)
    \/ BothGetAllJobs
    \/ \E id \in Ids, u \in Updates : BothUpdateJob(id, u)
    \/ \E id \in Ids : BothDeleteJob(id)

SpecBoth == InitBoth /\ [][NextBoth]_vars

(***************************************************************************)
(* Backend selection (StorageServiceFactory)                                *)
(***************************************************************************)
\* The identities handed to the factory: null (NoUser) and the user ids the
\* authentication session yields.
Identities == {NoUser} \cup Users

\* if (userId): null and the empty string are falsy.
TruthyId(u) == u # NoUser /\ u # ""

\* createStorageService ignoring its argument.
createStorageService_local(u, n) == [n |-> n, kind |-> "local", userId |-> NoUser]

\* createStorageService(userId): the n-th backend instance constructed.
createStorageService(u, n) ==
    IF TruthyId(u) THEN [n |-> n, kind |-> "remote", userId |-> u]
    ELSE [n |-> n, kind |-> "local", userId |-> NoUser]

\* The cache test without the comparison of identities.
CacheHit_anyUser(f, u) == f.currentService # NoService

\* this.currentService && this.currentUserId === userId
CacheHit(f, u) == f.currentService # NoService /\ f.currentUserId = u

\* A direct call of createStorageService(u).
CreateStorageService(u) ==
    /\ factory.made < MaxInstances
    /\ factory' = [factory EXCEPT
                      !.made = @ + 1,
                      !.last = [op |-> "createStorageService", userId |-> u,
                                ret |-> createStorageService(u, factory.made + 1),
                                prev |-> factory.prev, cleared |-> factory.cleared,
                                before |-> factory.made]]
    /\ UNCHANGED <<appLoading, loads, calls, now, nextId, storage, blob, table, userId, lastOp, appJobs, appError, call,
                   mig, prompt, peer, xf, contactJob>>

\* getService(userId).
FactoryGetService(u) ==
    LET hit == CacheHit(factory, u)
        made == IF hit THEN factory.made ELSE factory.made + 1
        service == IF hit THEN factory.currentService
                   ELSE createStorageService(u, factory.made + 1)
    IN /\ made <= MaxInstances
       /\ factory' = [currentService |-> service, currentUserId |-> u, made |-> made,
                      last |-> [op |-> "getService", userId |-> u, ret |-> service,
                                prev |-> factory.prev, cleared |-> factory.cleared,
                                before |-> factory.made],
                      prev |-> <<[userId |-> u, ret |-> service]>>, cleared |-> FALSE]
       /\ UNCHANGED <<appLoading, loads, calls, now, nextId, storage, blob, table, userId, lastOp, appJobs, appError,
                      call, mig, prompt, peer, xf, contactJob>>

\* clearCache().
FactoryClearCache ==
    /\ factory' = [factory EXCEPT
                      !.currentService = NoService, !.currentUserId = NoUser,
                      !.cleared = TRUE,
                      !.last = [op |-> "clearCache", userId |-> NoUser, ret |-> NoService,
                                prev |-> factory.prev, cleared |-> TRUE,
                                before |-> factory.made]]
    /\ UNCHANGED <<appLoading, loads, calls, now, nextId, storage, blob, table, userId, lastOp, appJobs, appError, call,
                   mig, prompt, peer, xf, contactJob>>

InitFactory ==
    /\ now = 1
    /\ nextId = 1
    /\ appLoading = TRUE
    /\ loads = <<>>
    /\ calls = NoCalls
    /\ storage = "ok"
    /\ blob = NoBlob
    /\ table = {}
    /\ userId = NoUser
    /\ lastOp = NoOp
    /\ peer = NoOp
    /\ appJobs = <<>>
    /\ appError = FALSE
    /\ call = NoCall
    /\ mig = NoMig
    /\ prompt = NoPrompt
    /\ xf = NoXf
    /\ factory = NoFactory
    /\ contactJob = NoContactJob

NextFactory ==
    \/ \E u \in Identities : CreateStorageService(u)
    \/ \E u \in Identities : FactoryGetService(u)
    \/ FactoryClearCache

SpecFactory == InitFactory /\ [][NextFactory]_vars

(***************************************************************************)
(* The transformers applied to payloads of every shape                      *)
(***************************************************************************)
\* A referral contact as ContactService builds it.
Contact(id, status, dateContacted) ==
    [id |-> id, name |-> "Ann", contactMethod |-> "email",
     dateContacted |-> dateContacted, status |-> status]

\* The payload without the two fields the JobPosting type does not declare.
Declared(p) ==
    [f \in (DOMAIN p) \ {"applicationRequirements", "applicationDeadline"} |-> p[f]]

\* Creation payloads with legal enumeration values: every status and outreach
\* status, null and non-null optional fields, with and without contacts, with
\* and without the fields the type does not declare.
TransformPayloads ==
    LET full == { [MakePayload("A", "req", st, applied) EXCEPT
                      !.referralOutreachStatus = out, !.jobId = jid,
                      !.applicationLink = link, !.referralContacts = cs] :
                    st \in ApplicationStatuses, applied \in {NoDate, 1},
                    out \in ReferralOutreachStatuses, jid \in {NullStr, "J1"},
                    link \in {NullStr, "https://apply"},
                    cs \in {<<>>, <<Contact(1, "Contacted", 1)>>} }
    IN full \cup { Declared(p) : p \in full }

\* dbRowToJobPosting(row) of the row the store builds from
\* jobPostingToDbInsert(p, u), a generated id and the timestamps.
XfRoundTrip ==
    LET p == xf.input[1]
        row == InsertedRow(jobPostingToDbInsert(p, xf.uid), nextId, now)
    IN /\ xf.fn = "none"
       /\ xf' = [xf EXCEPT !.fn = "roundTrip", !.row = <<row>>,
                           !.out = <<dbRowToJobPosting(row)>>]
       /\ UNCHANGED <<appLoading, loads, calls, now, nextId, storage, blob, table, userId, lastOp, appJobs, appError,
                      call, mig, prompt, peer, factory, contactJob>>

InitTransform ==
    /\ now \in 1..MaxClock
    /\ nextId = 1
    /\ appLoading = TRUE
    /\ loads = <<>>
    /\ calls = NoCalls
    /\ storage = "ok"
    /\ blob = NoBlob
    /\ table = {}
    /\ userId = NoUser
    /\ lastOp = NoOp
    /\ peer = NoOp
    /\ appJobs = <<>>
    /\ appError = FALSE
    /\ call = NoCall
    /\ mig = NoMig
    /\ prompt = NoPrompt
    /\ \E p \in TransformPayloads, u \in Users :
          xf = [NoXf EXCEPT !.input = <<p>>, !.uid = u]
    /\ factory = NoFactory
    /\ contactJob = NoContactJob

\* Partial<JobPosting> objects of every shape: empty, one field, fields that
\* are not payload fields (id, dateAdded, lastUpdated), nulls and lists.
UpdateObjects ==
    { <<>>,
      [status |-> "Applied"],
      [notes |-> "n", id |-> 99, dateAdded |-> 0],
      [lastUpdated |-> 0, jobTitle |-> "B"],
      [referralContacts |-> <<>>, dateApplied |-> 1, applicationLink |-> NullStr],
      [jobId |-> "J2", company |-> "C", location |-> "L", description |-> "D",
       linkedInUrl |-> "https://in", applicationRequirements |-> "r",
       applicationDeadline |-> "d", referralMessage |-> "m",
       referralOutreachStatus |-> "Contacted", id |-> 99] }

\* jobUpdatesToDbUpdate(updates) and the row .update(dbUpdate) makes of the row
\* stored by the round trip.
XfUpdate ==
    /\ xf.fn = "roundTrip"
    /\ \E u \in UpdateObjects :
          LET dbUpdate == jobUpdatesToDbUpdate(u, now)
          IN xf' = [xf EXCEPT !.fn = "update", !.updates = <<u>>, !.dbUpdate = <<dbUpdate>>,
                              !.at = now,
                              !.updated = <<Spread(xf.row[1], dbUpdate)>>]
    /\ UNCHANGED <<appLoading, loads, calls, now, nextId, storage, blob, table, userId, lastOp, appJobs, appError,
                   call, mig, prompt, peer, factory, contactJob>>

NextTransform ==
    \/ XfRoundTrip
    \/ XfUpdate
    \/ Tick

SpecTransform == InitTransform /\ [][NextTransform]_vars

(***************************************************************************)
(* The Remote Backend over a table whose row holds arbitrary status text    *)
(***************************************************************************)
\* Texts a status or outreach-status column may hold: the legal values, an
\* unknown word and the empty string.
StoredStatusTexts == ApplicationStatuses \cup {"InvalidStatus", ""}
StoredOutreachTexts == ReferralOutreachStatuses \cup {"InvalidStatus", ""}

\* The owner's row with the given texts in its two enumeration columns.
RowWithTexts(st, out) ==
    [SeedRow(SeedId["u1"], "u1", "S") EXCEPT !.status = st, !.referral_outreach_status = out]

InitRevalidate ==
    /\ now = 1
    /\ nextId = 1
    /\ appLoading = TRUE
    /\ loads = <<>>
    /\ calls = NoCalls
    /\ storage = "ok"
    /\ blob = NoBlob
    /\ \E st \in StoredStatusTexts, out \in StoredOutreachTexts :
          table = {RowWithTexts(st, out)}
    /\ userId = "u1"
    /\ lastOp = NoOp
    /\ peer = NoOp
    /\ appJobs = <<>>
    /\ appError = FALSE
    /\ call = NoCall
    /\ mig = NoMig
    /\ prompt = NoPrompt
    /\ xf = NoXf
    /\ factory = NoFactory
    /\ contactJob = NoContactJob

NextRevalidate ==
    \/ RemoteSaveJob(MakePayload("A", "req", "Saved", NoDate), FALSE)
    \/ \E id \in {SeedId["u1"]} \cup Ids : RemoteGetJob(id, FALSE)
    \/ RemoteGetAllJobs(FALSE)
    \/ \E u \in {[notes |-> "n"], [status |-> "Interview"]} :
          RemoteUpdateJob(SeedId["u1"], u, FALSE)

SpecRevalidate == InitRevalidate /\ [][NextRevalidate]_vars

(***************************************************************************)
(* ContactService                                                           *)
(***************************************************************************)
ReferralStatuses == {"Not Contacted", "Contacted", "Referral Received", "No Response"}

\* Values of AddContactInput.dateContacted: left out or null (NoDate), or a
\* date.
ContactDates == {NoDate, 1}

\* The stamping rule applied at every transition to "Contacted".
ContactedAt_always(contact, newStatus, t) ==
    IF newStatus = "Contacted" THEN t ELSE contact.dateContacted

\* dateContacted of the contact after updateContactStatus: set now when the
\* status becomes "Contacted" and no date was set.
ContactedAt(contact, newStatus, t) ==
    IF newStatus = "Contacted" /\ ~TruthyDate(contact.dateContacted)
    THEN t ELSE contact.dateContacted

ContactIndex(contacts, id) ==
    LET hits == { i \in 1..Len(contacts) : contacts[i].id = id }
    IN IF hits = {} THEN 0 ELSE CHOOSE i \in hits : \A k \in hits : i <= k

\* addContact(job, contactInput)
AddContact(dateContacted) ==
    LET newContact == [Contact(contactJob.made + 1, "Not Contacted", dateContacted)
                          EXCEPT !.name = "Bo"]
    IN /\ contactJob.made < MaxContacts
       /\ contactJob' =
              [job |-> [referralContacts |-> Append(contactJob.job.referralContacts, newContact),
                        lastUpdated |-> now],
               made |-> contactJob.made + 1,
               op |-> [fn |-> "addContact", contactId |-> contactJob.made + 1,
                       status |-> "none", at |-> now]]
       /\ UNCHANGED <<appLoading, loads, calls, now, nextId, storage, blob, table, userId, lastOp, appJobs, appError,
                      call, mig, prompt, peer, xf, factory>>

\* updateContactStatus(job, contactId, newStatus)
UpdateContactStatus(contactId, newStatus) ==
    LET contacts == contactJob.job.referralContacts
        contactIndex == ContactIndex(contacts, contactId)
        updated == [contacts[contactIndex] EXCEPT
                       !.status = newStatus,
                       !.dateContacted = ContactedAt(contacts[contactIndex], newStatus, now)]
    IN /\ contactJob' =
              [contactJob EXCEPT
                  !.job = IF contactIndex = 0 THEN @
                          ELSE [referralContacts |->
                                    [k \in 1..Len(contacts) |->
                                        IF k = contactIndex THEN updated ELSE contacts[k]],
                                lastUpdated |-> now],
                  !.op = [fn |-> "updateContactStatus", contactId |-> contactId,
                          status |-> newStatus, at |-> now]]
       /\ UNCHANGED <<appLoading, loads, calls, now, nextId, storage, blob, table, userId, lastOp, appJobs, appError,
                      call, mig, prompt, peer, xf, factory>>

\* removeContact(job, contactId)
RemoveContact(contactId) ==
    LET contacts == contactJob.job.referralContacts
    IN /\ contactJob' =
              [contactJob EXCEPT
                  !.job = [referralContacts |-> FilterOutId(contacts, contactId),
                           lastUpdated |-> now],
                  !.op = [fn |-> "removeContact", contactId |-> contactId,
                          status |-> "none", at |-> now]]
       /\ UNCHANGED <<appLoading, loads, calls, now, nextId, storage, blob, table, userId, lastOp, appJobs, appError,
                      call, mig, prompt, peer, xf, factory>>

ContactIds == 1..MaxContacts

InitContacts ==
    /\ now = 1
    /\ nextId = 1
    /\ appLoading = TRUE
    /\ loads = <<>>
    /\ calls = NoCalls
    /\ storage = "ok"
    /\ blob = NoBlob
    /\ table = {}
    /\ userId = NoUser
    /\ lastOp = NoOp
    /\ peer = NoOp
    /\ appJobs = <<>>
    /\ appError = FALSE
    /\ call = NoCall
    /\ mig = NoMig
    /\ prompt = NoPrompt
    /\ xf = NoXf
    /\ factory = NoFactory
    /\ contactJob = NoContactJob

NextContacts ==
    \/ Tick
    \/ \E d \in ContactDates : AddContact(d)
    \/ \E id \in ContactIds, st \in ReferralStatuses : UpdateContactStatus(id, st)
    \/ \E id \in ContactIds : RemoveContact(id)

SpecContacts == InitContacts /\ [][NextContacts]_vars

InitBackend == InitLocal \/ InitRemote

NextBackend ==
    \/ userId = NoUser /\ NextLocal
    \/ userId # NoUser /\ NextRemote

SpecBackend == InitBackend /\ [][NextBackend]_vars

(***************************************************************************)
(* Claims about the two backends                                            *)
(***************************************************************************)
SavedLocally == lastOp.op = "saveJob" /\ lastOp.backend = "local"

\* C1 (as stated): immediately after Local saveJob(p) returned r, getJob(r.id)
\* returns a record equal to r in every field.
C1_SaveThenGet_Original ==
    SavedLocally => getJob(storage, blob, lastOp.ret[1].id) = lastOp.ret

\* C1 (amended): when the store accepted saveJob's write and is still
\* available, getJob(r.id) right after returns a record equal to r in every
\* field.
C1_SaveThenGet ==
    (SavedLocally /\ lastOp.wrote /\ isStorageAvailable(storage))
        => getJob(storage, blob, lastOp.ret[1].id) = lastOp.ret

C1_Witness ==
    /\ SavedLocally /\ lastOp.wrote /\ isStorageAvailable(storage)
    /\ Len(blob.jobs) = 2
    /\ getJob(storage, blob, lastOp.ret[1].id) = lastOp.ret

\* An update(id, {status: "Applied"}) that found a stored record whose status
\* was not "Applied" and whose dateApplied was null.
AppliedUpdateOfUnapplied ==
    /\ lastOp.op = "updateJob"
    /\ lastOp.updates = [status |-> "Applied"]
    /\ lastOp.prev # <<>>
    /\ lastOp.prev[1].status # "Applied"
    /\ lastOp.prev[1].dateApplied = NoDate

\* C3 (as stated): the backend's update(id, {status: "Applied"}) of such a
\* record returns status "Applied" and a non-null dateApplied.
C3_UpdateSetsAppliedAt_Original ==
    AppliedUpdateOfUnapplied =>
        /\ lastOp.ret # <<>>
        /\ lastOp.ret[1].status = "Applied"
        /\ lastOp.ret[1].dateApplied # NoDate

\* C3 (amended): either backend's update(id, {status: "Applied"}) of such a
\* record returns status "Applied" and leaves dateApplied null; the backends
\* store dateApplied only when the update object carries it.
C3_UpdateKeepsAppliedAt ==
    AppliedUpdateOfUnapplied =>
        /\ lastOp.ret # <<>>
        /\ lastOp.ret[1].status = "Applied"
        /\ lastOp.ret[1].dateApplied = NoDate

C3_Witness ==
    /\ AppliedUpdateOfUnapplied
    /\ lastOp.backend = "remote"
    /\ lastOp.ret # <<>>
    /\ lastOp.ret[1].status = "Applied"

OthersRows(tbl) == { r \in tbl : r.user_id # userId }

\* C9: every record the Remote Backend bound to userId returned came from a
\* row of that owner, every row it inserted carries that owner, and the rows
\* of other owners are neither modified nor deleted.
C9_OwnerIsolation ==
    /\ \A r \in lastOp.src : r.user_id = userId
    /\ \A r \in lastOp.new : r.user_id = userId
    /\ \A r \in lastOp.gone : r.user_id = userId
    /\ OthersRows(table) = OthersRows(SeedTable)

C9_Witness ==
    /\ lastOp.op = "updateJob" /\ lastOp.backend = "remote" /\ ~lastOp.threw
    /\ \E r \in OthersRows(table) : r.id = lastOp.id
    /\ \E r \in table : r.id \in Ids

\* The table as it was before the last call.
TableBefore == (table \ lastOp.new) \cup lastOp.gone

\* The store answered a getJob or updateJob of the Remote Backend.
AnsweredGetOrUpdate ==
    lastOp.backend = "remote" /\ lastOp.op \in {"getJob", "updateJob"} /\ ~lastOp.threw

NoRowWithId == ~ \E r \in TableBefore : r.id = lastOp.id
RowOfAnotherOwner == \E r \in TableBefore : r.id = lastOp.id /\ r.user_id # userId

\* C10: getJob(id) and updateJob(id, updates) of the Remote Backend return
\* null, raise no error and leave the table unchanged, both when no row has
\* that id and when the row with that id belongs to another owner.
C10_NotFoundNotOwned ==
    (AnsweredGetOrUpdate /\ (NoRowWithId \/ RowOfAnotherOwner))
        => (lastOp.ret = <<>> /\ lastOp.gone = {} /\ lastOp.new = {})

C10_Witness ==
    /\ AnsweredGetOrUpdate /\ lastOp.op = "updateJob" /\ RowOfAnotherOwner
    /\ lastOp.ret = <<>>
    /\ table = SeedTable

(***************************************************************************)
(* Claims about the migration                                               *)
(***************************************************************************)
MigrationReturned == mig.pc = "returned"

\* C4: the Local collection after migrateToCloud returned is identical to the
\* collection before the call, also when every record was migrated; during
\* the call it is never written.
C4_MigrationKeepsLocal ==
    mig.pc \in {"loop", "returned"} => blob = mig.before

C4_Witness ==
    /\ MigrationReturned /\ mig.result.success /\ mig.result.totalCount = MaxLocal
    /\ blob = mig.before /\ blob.kind = "jobs"

\* C5: migrateToCloud returns totalCount = N, the number of Local records,
\* migratedCount = the number of records with no recorded error,
\* migratedCount + errors.length = totalCount, and success = true exactly
\* when migratedCount = totalCount.
C5_MigrationCounts ==
    MigrationReturned =>
        /\ mig.result.totalCount = Len(getAllJobs(storage, blob))
        /\ mig.result.migratedCount = mig.result.totalCount - Len(mig.result.errors)
        /\ mig.result.migratedCount =
               Cardinality({ i \in 1..Len(mig.localJobs) :
                               \E r \in table : r.id = nextId - Len(mig.localJobs) + i - 1 })
        /\ mig.result.success <=> (mig.result.migratedCount = mig.result.totalCount)

C5_Witness ==
    /\ MigrationReturned
    /\ mig.result.totalCount = 2 /\ mig.result.migratedCount = 1
    /\ Len(mig.result.errors) = 1 /\ ~mig.result.success

PayloadsOf(jobs) == [i \in 1..Len(jobs) |-> MigrationPayload(jobs[i])]

\* C6: within one migrateToCloud call every Local record is submitted to the
\* Remote save exactly once, in the order of getAllJobs, whether or not the
\* saves of earlier records failed.
C6_EveryRecordSubmitted ==
    /\ mig.pc = "loop" =>
          mig.submitted = PayloadsOf(SubSeq(mig.localJobs, 1, mig.k - 1))
    /\ MigrationReturned =>
          mig.submitted = PayloadsOf(getAllJobs(storage, blob))

C6_Witness ==
    /\ MigrationReturned
    /\ Len(mig.submitted) = 2
    /\ Len(mig.result.errors) >= 1
    /\ mig.result.errors[1] = MigrationError(mig.localJobs[1])

\* The row holds, column by column, the payload fields of the Local record.
RowEqualsRecord(row, job) ==
    \A f \in PayloadFields : row[Col[f]] = job[f]

\* C7: after a migrateToCloud that returned success = true, every Local record
\* has a row of the owner whose fields equal the record's in every field
\* except identifier, created-at and updated-at.
C7_MigrationCompleteness ==
    (MigrationReturned /\ mig.result.success) =>
        \A i \in 1..Len(blob.jobs) :
            \E row \in table : row.user_id = userId /\ RowEqualsRecord(row, blob.jobs[i])

\* The last migration the prompt showed did not succeed.
LastMigrationFailed == prompt.result # <<>> /\ ~prompt.result[1].success

\* C8: once migrateToCloud returned success = false, clearLocalData is not
\* called and the Local collection stays intact in every state reached from
\* there by Retry, Try Again, Continue Anyway or Skip for Now.
C8_FailureKeepsLocal ==
    /\ LastMigrationFailed => blob = prompt.local0
    /\ (MigrationReturned /\ ~mig.result.success) => blob = prompt.local0

C8_Witness ==
    /\ LastMigrationFailed
    /\ prompt.state = "closed"
    /\ prompt.result[1].migratedCount = 1
    /\ blob = prompt.local0 /\ blob.kind = "jobs"

(***************************************************************************)
(* Claims about AppContext                                                  *)
(***************************************************************************)
\* The job with the given id in the in-memory list (<<>> when absent).
MemJob(id) ==
    LET hits == { i \in 1..Len(appJobs) : appJobs[i].id = id }
    IN IF hits = {} THEN <<>> ELSE <<appJobs[CHOOSE i \in hits : TRUE]>>

\* The persisted record with the given id: in the blob for the Local Backend,
\* in the owner's rows for the Remote Backend.
StoredJob(id) ==
    IF IsLocal
    THEN LET hits == { i \in 1..Len(blob.jobs) : blob.jobs[i].id = id }
         IN IF hits = {} THEN <<>> ELSE <<blob.jobs[CHOOSE i \in hits : TRUE]>>
    ELSE RemoteGetRet(table, id, userId)

\* One step of a record: a change of status to "Applied" leaves dateApplied
\* non-null, and a dateApplied that is set stays as it is.
AppliedAtStep(before, after) ==
    (before # <<>> /\ after # <<>>) =>
        /\ (before[1].status # "Applied" /\ after[1].status = "Applied")
              => after[1].dateApplied # NoDate
        /\ before[1].dateApplied # NoDate
              => after[1].dateApplied = before[1].dateApplied

\* C2: over any sequence of updateJob status changes that do not overlap, the
\* first change of status to "Applied" makes dateApplied non-null and no later
\* status change alters a dateApplied that is set, in the in-memory list and
\* in the persisted record.
C2_AppliedAtSetOnce ==
    [][ \A id \in Ids :
          /\ AppliedAtStep(MemJob(id), MemJob(id)')
          /\ AppliedAtStep(StoredJob(id), StoredJob(id)') ]_vars

C2_Witness ==
    \E id \in Ids :
        /\ MemJob(id) # <<>> /\ StoredJob(id) # <<>>
        /\ MemJob(id)[1].status = "Applied" /\ StoredJob(id)[1].status = "Applied"
        /\ MemJob(id)[1].dateApplied = 1 /\ StoredJob(id)[1].dateApplied = 1
        /\ MemJob(id)[1].lastUpdated = 2 /\ StoredJob(id)[1].lastUpdated = 2
        /\ call.pc = "idle"

(***************************************************************************)
(* Claims about the Local Backend's updateJob and deleteJob                 *)
(***************************************************************************)
\* Identifiers of the records the blob holds, and the record under one.
BlobIds(b) == { b.jobs[i].id : i \in 1..Len(b.jobs) }

BlobJob(b, id) ==
    LET hits == { i \in 1..Len(b.jobs) : b.jobs[i].id = id }
    IN IF hits = {} THEN <<>> ELSE <<b.jobs[CHOOSE i \in hits : TRUE]>>

\* A step that ends with the Local updateJob as the last call.
LocalUpdateStep == lastOp'.op = "updateJob" /\ lastOp'.backend = "local"

\* Every record stored before the step is stored after it; the one under the
\* updated id agrees with its old value on the fields outside `named`, every
\* other one is as it was.
UpdateFrame(named) ==
    \A id \in BlobIds(blob) :
        LET before == BlobJob(blob, id)[1]
            after == BlobJob(blob', id)
        IN /\ after # <<>>
           /\ IF id = lastOp'.id
              THEN \A f \in (DOMAIN before) \ named : after[1][f] = before[f]
              ELSE after[1] = before

\* C11 (as stated): after Local updateJob(id, updates) every field of the
\* record that updates does not name keeps its old value, and every other
\* record of the collection is unchanged.
C11_UpdatePreservesFields_Original ==
    [][ LocalUpdateStep => UpdateFrame(DOMAIN lastOp'.updates) ]_vars

\* C11 (amended): after Local updateJob(id, updates) every field of the
\* record other than lastUpdated that updates does not name keeps its old
\* value, and every other record of the collection is unchanged.
C11_UpdatePreservesFields ==
    [][ LocalUpdateStep => UpdateFrame((DOMAIN lastOp'.updates) \cup {"lastUpdated"}) ]_vars

C11_Witness ==
    /\ lastOp.op = "updateJob" /\ lastOp.backend = "local" /\ lastOp.wrote
    /\ Len(blob.jobs) = 2
    /\ lastOp.updates = [status |-> "Applied"]
    /\ lastOp.prev[1].status = "Saved" /\ lastOp.prev[1].lastUpdated = 1
    /\ BlobJob(blob, lastOp.id) = lastOp.ret
    /\ lastOp.ret[1].status = "Applied" /\ lastOp.ret[1].lastUpdated = 2
    /\ lastOp.ret[1].jobTitle = lastOp.prev[1].jobTitle

\* A step in which the Local updateJob ran and found the record.
LocalUpdateFound ==
    /\ LocalUpdateStep /\ lastOp' # lastOp
    /\ lastOp'.prev # <<>>

\* No step changes the dateAdded of a stored record or lowers its
\* lastUpdated, and updateJob leaves the set of stored identifiers as it was.
IdAndCreatedAtKept ==
    /\ LocalUpdateStep => BlobIds(blob') = BlobIds(blob)
    /\ \A id \in BlobIds(blob) \cap BlobIds(blob') :
          /\ BlobJob(blob', id)[1].dateAdded = BlobJob(blob, id)[1].dateAdded
          /\ BlobJob(blob', id)[1].lastUpdated >= BlobJob(blob, id)[1].lastUpdated

\* The record updateJob returns carries the identifier and dateAdded of the
\* stored one and the time of the call as lastUpdated.
ReturnedRefreshed ==
    LocalUpdateFound =>
        /\ lastOp'.ret # <<>>
        /\ lastOp'.ret[1].id = lastOp'.prev[1].id
        /\ lastOp'.ret[1].dateAdded = lastOp'.prev[1].dateAdded
        /\ lastOp'.ret[1].lastUpdated = now

\* C12 (as stated): over any sequence of Local saveJob/updateJob/deleteJob
\* calls a record's id and dateAdded never change, also when the update
\* names them, its lastUpdated never decreases, and every update refreshes
\* the lastUpdated of the record.
C12_IdCreatedAtImmutable_Original ==
    [][ /\ IdAndCreatedAtKept
        /\ ReturnedRefreshed
        /\ LocalUpdateFound => BlobJob(blob', lastOp'.id)[1].lastUpdated = now ]_vars

\* C12 (amended): the same, with lastUpdated refreshed in the returned record
\* by every update and in the stored record by every update whose write the
\* store accepts.
C12_IdCreatedAtImmutable ==
    [][ /\ IdAndCreatedAtKept
        /\ ReturnedRefreshed
        /\ (LocalUpdateFound /\ lastOp'.wrote)
              => BlobJob(blob', lastOp'.id)[1].lastUpdated = now ]_vars

C12_Witness ==
    /\ lastOp.op = "updateJob" /\ lastOp.backend = "local" /\ lastOp.wrote
    /\ "id" \in DOMAIN lastOp.updates /\ "dateAdded" \in DOMAIN lastOp.updates
    /\ lastOp.prev # <<>> /\ lastOp.prev[1].lastUpdated = 1
    /\ BlobJob(blob, lastOp.id) = lastOp.ret
    /\ lastOp.ret[1].id = lastOp.id /\ lastOp.ret[1].dateAdded = 1
    /\ lastOp.ret[1].lastUpdated = 2 /\ lastOp.ret[1].notes = "n"

\* Neither getJob(id) nor getAllJobs() yields a record with the id.
NotRetrievable(id) ==
    /\ getJob(storage, blob, id) = <<>>
    /\ \A i \in 1..Len(getAllJobs(storage, blob)) : getAllJobs(storage, blob)[i].id # id

\* An identifier already generated that no stored record carries is carried
\* by no stored record after the step: identifiers are not reused.
AbsentStaysAbsent ==
    \A id \in 1..(nextId - 1) : id \notin BlobIds(blob) => id \notin BlobIds(blob')

LocalDeleteCalled == lastOp.op = "deleteJob" /\ lastOp.backend = "local"

\* C13 (as stated): after Local deleteJob(id) has been called, getJob(id)
\* returns null and getAllJobs() holds no record with that id, in that state
\* and in every later one.
C13_DeleteTerminal_Original ==
    /\ [](LocalDeleteCalled => NotRetrievable(lastOp.id))
    /\ [][AbsentStaysAbsent]_vars

\* C13 (amended): after Local deleteJob(id) has returned true, no stored
\* record carries the id, getJob(id) returns null and getAllJobs() holds no
\* record with that id, in that state and in every later one.
C13_DeleteTerminal ==
    /\ []((LocalDeleteCalled /\ lastOp.ok)
            => (lastOp.id \notin BlobIds(blob) /\ NotRetrievable(lastOp.id)))
    /\ [][AbsentStaysAbsent]_vars

C13_Witness ==
    /\ LocalDeleteCalled /\ lastOp.ok
    /\ lastOp.id < nextId
    /\ lastOp.id \notin BlobIds(blob)
    /\ Len(blob.jobs) = 1
    /\ isStorageAvailable(storage)
    /\ NotRetrievable(lastOp.id)

(***************************************************************************)
(* Claims about the two backends side by side                               *)
(***************************************************************************)
\* Two records agree on every field other than identifier and timestamps.
SameFields(a, b) ==
    /\ (DOMAIN a) \ {"id", "dateAdded", "lastUpdated"}
          = (DOMAIN b) \ {"id", "dateAdded", "lastUpdated"}
    /\ \A f \in (DOMAIN a) \ {"id", "dateAdded", "lastUpdated"} : a[f] = b[f]

\* The two results of one call: the same number of records (null against
\* null), field by field, and for deleteJob the same boolean.
SameResult(l, r) ==
    /\ l.op = r.op
    /\ Len(l.ret) = Len(r.ret)
    /\ \A i \in 1..Len(l.ret) : SameFields(l.ret[i], r.ret[i])
    /\ l.op = "deleteJob" => l.ok = r.ok

BackendFor(service, u) ==
    /\ u # NoUser => (service.kind = "remote" /\ service.userId = u)
    /\ service.kind = "local" => u = NoUser
    /\ service.kind \in {"remote", "local"}

SameAsPreviousCall ==
    /\ factory.last.prev # <<>>
    /\ factory.last.prev[1].userId = factory.last.userId
    /\ ~factory.last.cleared

\* C16: getService(u) returns a backend for the identity u; it is the very
\* instance the previous getService call returned exactly when that call had
\* the same identity and no clearCache ran in between, and an instance
\* constructed by this call otherwise.
C16_SelectorCache ==
    factory.last.op = "getService" =>
        /\ BackendFor(factory.last.ret, factory.last.userId)
        /\ IF SameAsPreviousCall
           THEN factory.last.ret = factory.last.prev[1].ret
           ELSE factory.last.ret.n = factory.last.before + 1
        /\ factory.last.prev # <<>> =>
              ((factory.last.ret = factory.last.prev[1].ret) <=> SameAsPreviousCall)

C16_Witness ==
    /\ factory.last.op = "getService"
    /\ factory.last.userId = NoUser
    /\ factory.last.prev # <<>> /\ factory.last.prev[1].userId = "u1"
    /\ factory.last.ret.kind = "local"
    /\ factory.made = 3

(***************************************************************************)
(* Claims about the order of getAllJobs                                     *)
(***************************************************************************)
\* No record with a later dateAdded follows one with an earlier dateAdded.
NewestFirst(jobs) ==
    \A i, k \in 1..Len(jobs) : i < k => jobs[i].dateAdded >= jobs[k].dateAdded

\* The list holds the stored records, each once.
AllStored(jobs, b) ==
    /\ Len(jobs) = Len(b.jobs)
    /\ { jobs[i] : i \in 1..Len(jobs) } = { b.jobs[i] : i \in 1..Len(b.jobs) }

\* C17 (as stated): after any sequence of saves, updates and deletes, Local
\* getAllJobs() returns all stored records, ordered by dateAdded descending.
C17_NewestFirst_Original ==
    /\ NewestFirst(getAllJobs(storage, blob))
    /\ AllStored(getAllJobs(storage, blob), blob)

\* C17 (amended): Local getAllJobs() returns a list ordered by dateAdded
\* descending; it holds all stored records when the store is available and
\* is empty when it is not.
C17_NewestFirst ==
    /\ NewestFirst(getAllJobs(storage, blob))
    /\ isStorageAvailable(storage) => AllStored(getAllJobs(storage, blob), blob)
    /\ ~isStorageAvailable(storage) => getAllJobs(storage, blob) = <<>>

C17_Witness ==
    /\ isStorageAvailable(storage)
    /\ Len(blob.jobs) = 2
    /\ blob.jobs[1].dateAdded = 1 /\ blob.jobs[2].dateAdded = 2
    /\ lastOp.op = "getAllJobs" /\ lastOp.ret = getAllJobs(storage, blob)
    /\ lastOp.ret[1] = blob.jobs[2] /\ lastOp.ret[2] = blob.jobs[1]

(***************************************************************************)
(* Claims about the transformers                                            *)
(***************************************************************************)
\* C18: for every creation payload p with legal enumeration values and every
\* owner id u, dbRowToJobPosting of the row built from
\* jobPostingToDbInsert(p, u), a generated id and timestamps equals p in
\* every field of p; the row carries the owner, the record the generated id.
C18_RoundTrip ==
    xf.fn = "roundTrip" =>
        /\ \A f \in DOMAIN xf.input[1] : xf.out[1][f] = xf.input[1][f]
        /\ xf.row[1].user_id = xf.uid
        /\ xf.out[1].id = xf.row[1].id

C18_Witness ==
    /\ xf.fn = "roundTrip"
    /\ xf.input[1].status = "Offer" /\ xf.out[1].status = "Offer"
    /\ xf.input[1].referralOutreachStatus = "Declined"
    /\ xf.input[1].applicationLink = "https://apply" /\ xf.input[1].linkedInUrl = NullStr
    /\ xf.out[1].applicationLink = "https://apply" /\ xf.out[1].linkedInUrl = NullStr
    /\ xf.input[1].referralContacts # <<>>
    /\ xf.out[1].referralContacts = xf.input[1].referralContacts
    /\ "applicationRequirements" \notin DOMAIN xf.input[1]
    /\ xf.out[1].applicationRequirements = NullStr

\* The row a returned record was built from.
SourceRow(rec) == CHOOSE r \in lastOp.src : r.id = rec.id

\* The record's two enumerations are legal: the row's value when that is
\* legal, the default otherwise.
Revalidated(rec, row) ==
    /\ rec.status \in ApplicationStatuses
    /\ rec.referralOutreachStatus \in ReferralOutreachStatuses
    /\ rec.status = IF row.status \in ApplicationStatuses THEN row.status ELSE "Saved"
    /\ rec.referralOutreachStatus =
          IF row.referral_outreach_status \in ReferralOutreachStatuses
          THEN row.referral_outreach_status ELSE "Have to Find"

\* C19: every record a Remote Backend operation returns has a legal status
\* and a legal referralOutreachStatus whatever text the stored row holds: an
\* illegal stored status is returned as "Saved", an illegal outreach status as
\* "Have to Find", a legal stored value unchanged.
C19_EnumsRevalidated ==
    lastOp.backend = "remote" =>
        \A i \in 1..Len(lastOp.ret) :
            /\ \E r \in lastOp.src : r.id = lastOp.ret[i].id
            /\ Revalidated(lastOp.ret[i], SourceRow(lastOp.ret[i]))

C19_Witness ==
    /\ lastOp.op = "updateJob" /\ lastOp.backend = "remote"
    /\ lastOp.updates = [notes |-> "n"]
    /\ lastOp.ret # <<>>
    /\ SourceRow(lastOp.ret[1]).status = "InvalidStatus"
    /\ SourceRow(lastOp.ret[1]).referral_outreach_status = "Got Referral"
    /\ lastOp.ret[1].status = "Saved"
    /\ lastOp.ret[1].referralOutreachStatus = "Got Referral"

(***************************************************************************)
(* Claims about ContactService                                              *)
(***************************************************************************)
\* The contact with the given id in a job's list (<<>> when absent).
ContactOf(job, id) ==
    LET hits == { i \in 1..Len(job.referralContacts) : job.referralContacts[i].id = id }
    IN IF hits = {} THEN <<>> ELSE <<job.referralContacts[CHOOSE i \in hits : TRUE]>>

\* One step of the contact with the given id.
ContactedAtStep(id) ==
    LET before == ContactOf(contactJob.job, id)
        after == ContactOf(contactJob.job', id)
        op == contactJob.op'
    IN /\ (before = <<>> /\ after # <<>>) => after[1].status = "Not Contacted"
       /\ (before # <<>> /\ after # <<>>) =>
             /\ before[1].dateContacted # NoDate
                   => after[1].dateContacted = before[1].dateContacted
             /\ (/\ op.fn = "updateContactStatus" /\ op.contactId = id
                 /\ op.status = "Contacted" /\ before[1].dateContacted = NoDate)
                   => after[1].dateContacted # NoDate

\* C20: over any sequence of ContactService calls, dateContacted becomes
\* non-null at the first updateContactStatus call with status "Contacted"
\* when it was null, a non-null dateContacted is never changed by a later
\* status change, and a contact created by addContact has status
\* "Not Contacted".
C20_ContactedAtSetOnce ==
    [][ \A id \in ContactIds : ContactedAtStep(id) ]_vars

C20_Witness ==
    /\ now = 2
    /\ contactJob.op.fn = "updateContactStatus" /\ contactJob.op.at = 2
    /\ contactJob.op.status = "Referral Received"
    /\ ContactOf(contactJob.job, contactJob.op.contactId) # <<>>
    /\ ContactOf(contactJob.job, contactJob.op.contactId)[1].dateContacted = 1
    /\ ContactOf(contactJob.job, contactJob.op.contactId)[1].status = "Referral Received"
    /\ \E id \in ContactIds :
          /\ ContactOf(contactJob.job, id) # <<>>
          /\ ContactOf(contactJob.job, id)[1].status = "Contacted"
          /\ ContactOf(contactJob.job, id)[1].dateContacted = 2

\* Identifiers of a contact list, in order.
ContactIdsOf(contacts) == [i \in 1..Len(contacts) |-> contacts[i].id]

\* A step that ends with removeContact(job, id) as the last call: the
\* contacts left are those with another id, each as it was and in the order
\* they had; removing the id again changes nothing more.
RemovalStep ==
    LET before == contactJob.job.referralContacts
        after == contactJob.job.referralContacts'
        id == contactJob.op.contactId'
    IN /\ \A c \in ContactIds : c # id => ContactOf(contactJob.job', c) = ContactOf(contactJob.job, c)
       /\ ContactOf(contactJob.job', id) = <<>>
       /\ \A i, k \in 1..Len(after) :
             i < k => ContactIndex(before, after[i].id) < ContactIndex(before, after[k].id)
       /\ FilterOutId(after, id) = after
       /\ ContactOf(contactJob.job, id) = <<>> => after = before

\* C21 (as stated): removeContact(job, id) with an id that is not in
\* job.referralContacts returns a job equal to the input job, removing twice
\* equals removing once, and the remaining contacts keep their order.
C21_RemoveIdempotent_Original ==
    [][ contactJob.op.fn' = "removeContact" =>
          /\ RemovalStep
          /\ ContactOf(contactJob.job, contactJob.op.contactId') = <<>>
                => contactJob.job' = contactJob.job ]_vars

\* C21 (amended): removeContact(job, id) with an id that is not in
\* job.referralContacts returns a job whose contacts equal the input job's,
\* removing twice leaves the contacts that removing once leaves, and the
\* remaining contacts keep their order; lastUpdated is set to the time of the
\* call every time.
C21_RemoveIdempotent ==
    [][ contactJob.op.fn' = "removeContact" =>
          /\ RemovalStep
          /\ (contactJob' # contactJob) => contactJob.job.lastUpdated' = now ]_vars

C21_Witness ==
    /\ contactJob.op.fn = "removeContact"
    /\ contactJob.made = 1 /\ contactJob.op.contactId = 2
    /\ ContactIdsOf(contactJob.job.referralContacts) = <<1>>
    /\ contactJob.job.lastUpdated = 2 /\ contactJob.op.at = 2

(***************************************************************************)
(* Claims about the Local Backend's saveJob                                 *)
(***************************************************************************)
\* A step in which the Local saveJob ran.
LocalSaveStep ==
    /\ lastOp'.op = "saveJob" /\ lastOp'.backend = "local"
    /\ nextId' = nextId + 1

\* saveJob whose write the store rejected: it does not throw, returns a new
\* record with a fresh id and equal dateAdded and lastUpdated, and leaves the
\* blob as it was.
RejectedSaveReturns ==
    /\ ~lastOp'.threw
    /\ lastOp'.ret # <<>>
    /\ lastOp'.ret[1].id = nextId /\ lastOp'.ret[1].id \notin BlobIds(blob)
    /\ lastOp'.ret[1].dateAdded = now /\ lastOp'.ret[1].lastUpdated = now
    /\ blob' = blob

\* C22: when the store rejects writes, Local saveJob(p) does not
\* throw, returns a new record with a fresh id and equal dateAdded and
\* lastUpdated, leaves the blob unchanged, and isAvailable() returns false in
\* that state.
C22_UnavailableStore ==
    [][ (LocalSaveStep /\ ~lastOp'.wrote) =>
          (RejectedSaveReturns /\ ~isStorageAvailable(storage')) ]_vars

(***************************************************************************)
(* Remote store failure                                                    *)
(***************************************************************************)

\* The last call was a Remote one that the store answered with an error.
StoreAnsweredError == lastOp.backend = "remote" /\ lastOp.storeError # <<>>

\* C23: when the store answers a Remote request with an error other than the
\* no-rows marker, the operation rejects with an error carrying the store's
\* message, issues no second request, returns no record and leaves the table
\* as it was.
C23_FailureSurfaced ==
    StoreAnsweredError =>
        /\ lastOp.threw
        /\ lastOp.message # <<>>
        /\ lastOp.message[Len(lastOp.message)] = lastOp.storeError[1].message
        /\ lastOp.requests = 1
        /\ lastOp.ret = <<>>
        /\ lastOp.gone = {} /\ lastOp.new = {}

C23_Witness ==
    /\ StoreAnsweredError
    /\ lastOp.op = "updateJob"
    /\ SelectOwned(table, lastOp.id, userId) # {}
    /\ lastOp.threw

(***************************************************************************)
(* Partial update mapping                                                  *)
(***************************************************************************)

\* Columns of the payload fields an update object holds.
ColumnsOf(updates) == { Col[f] : f \in (DOMAIN updates) \cap PayloadFields }

\* C24: jobUpdatesToDbUpdate returns exactly the columns of the fields present
\* in the update object, each with the field's value, plus last_updated set to
\* the time of the call (xf.at); it never holds id, user_id or date_added, and the row
\* updated with it keeps its identifier, owner and created-at.
C24_PartialUpdateMapping ==
    xf.fn = "update" =>
        LET u == xf.updates[1]
            d == xf.dbUpdate[1]
        IN /\ DOMAIN d = ColumnsOf(u) \cup {"last_updated"}
           /\ \A f \in (DOMAIN u) \cap PayloadFields : d[Col[f]] = u[f]
           /\ d.last_updated = xf.at
           /\ (DOMAIN d) \cap {"id", "user_id", "date_added"} = {}
           /\ xf.updated[1].id = xf.row[1].id
           /\ xf.updated[1].user_id = xf.row[1].user_id
           /\ xf.updated[1].date_added = xf.row[1].date_added
           /\ \A c \in (DOMAIN xf.row[1]) \ DOMAIN d : xf.updated[1][c] = xf.row[1][c]

C24_Witness ==
    /\ xf.fn = "update"
    /\ xf.updates[1] = [notes |-> "n", id |-> 99, dateAdded |-> 0]
    /\ DOMAIN xf.dbUpdate[1] = {"notes", "last_updated"}
    /\ xf.updated[1].notes = "n"
    /\ xf.updated[1].id = 1
    /\ xf.updated[1].last_updated = 2 /\ xf.row[1].last_updated = 1

(***************************************************************************)
(* Repeated migration                                                      *)
(***************************************************************************)

\* Number of times the Local record with this id was saved to the store.
TimesSaved(id) == Cardinality({ i \in 1..Len(mig.saved) : mig.saved[i] = id })

\* C25: across repeated migrateToCloud calls for one owner, no Local record
\* is saved to the Remote Backend more than once.
C25_NoDuplicateMigration ==
    \A i \in 1..Len(mig.saved) : TimesSaved(mig.saved[i]) <= 1

(***************************************************************************)
(* Local saveJob and the records stored before it                          *)
(***************************************************************************)

\* C26: every record stored before a Local saveJob is still stored,
\* unchanged, after it returns, whatever the store's probe answers during the
\* read of the collection and during its write.
C26_SaveOnlyAdds ==
    [][ LocalSaveStep =>
          \A id \in BlobIds(blob) : BlobJob(blob', id) = BlobJob(blob, id) ]_vars

(***************************************************************************)
(* The in-memory list and storage after updateJob                          *)
(***************************************************************************)

\* Fields of a record other than its three timestamps.
NonTimestampFields == PayloadFields \ {"dateApplied"}

\* A step in which the updateJob call in flight settles.
UpdateSettles == call.pc # "idle" /\ call.pc' = "idle"

\* C29: once an AppContext.updateJob(id, updates) call has settled, the
\* in-memory record and the stored record with that id agree on every
\* non-timestamp field, also when getJob or updateJob rejected.
C29_MemoryAgreesWithStorage ==
    [][ UpdateSettles =>
          \A id \in Ids :
             (id = call.id /\ MemJob(id)' # <<>> /\ StoredJob(id)' # <<>>) =>
                \A f \in NonTimestampFields \cap DOMAIN (MemJob(id)')[1] :
                   (MemJob(id)')[1][f] = (StoredJob(id)')[1][f] ]_vars

(***************************************************************************)
(* Applied-at under overlapping updates                                    *)
(***************************************************************************)

\* C27: when AppContext.updateJob calls on one job overlap, the persisted
\* dateApplied is assigned at most once: a later write never replaces the
\* value an earlier one set.
C27_AppliedAtOverlap ==
    [][ \A id \in Ids :
          (StoredJob(id) # <<>> /\ StoredJob(id)' # <<>>
             /\ StoredJob(id)[1].dateApplied # NoDate)
          => (StoredJob(id)')[1].dateApplied = StoredJob(id)[1].dateApplied ]_vars

(***************************************************************************)
(* AppProvider's loadJobs effect: it runs on mount and again whenever the   *)
(* owner identity, and with it the storage service, changes.                *)
(***************************************************************************)
\* isLoading kept through SET_JOBS.
ReduceLoading_keep(isLoading, type, payload) ==
    IF type = "SET_LOADING" THEN payload ELSE isLoading

\* appReducer on isLoading: SET_LOADING stores its payload, SET_JOBS clears
\* it, every other action leaves it.
ReduceLoading(isLoading, type, payload) ==
    IF type = "SET_LOADING" THEN payload
    ELSE IF type = "SET_JOBS" THEN FALSE
    ELSE isLoading

\* isAvailable() and getAllJobs() of createStorageService(u).
ServiceIsAvailable(u) == IF TruthyId(u) THEN TRUE ELSE isStorageAvailable(storage)

ServiceGetAllJobs(u) ==
    IF TruthyId(u) THEN MapRows(OrderNewestFirst(SelectAllOwned(table, u)))
    ELSE getAllJobs(storage, blob)

\* The effect runs for identity u (the mount, or a change of the userId
\* prop): loadJobs dispatches SET_LOADING, SET_ERROR when the service is not
\* available, and awaits getAllJobs.
LoadJobs(u) ==
    /\ Len(loads) < MaxLoads
    /\ IF loads = <<>> THEN u = userId ELSE u # userId
    /\ userId' = u
    /\ appLoading' = ReduceLoading(appLoading, "SET_LOADING", TRUE)
    /\ appError' = (appError \/ ~ServiceIsAvailable(u))
    /\ loads' = Append(loads, [pc |-> "awaiting", uid |-> u, rejected |-> FALSE,
                                result |-> <<>>])
    /\ UNCHANGED <<now, nextId, storage, blob, table, lastOp, appJobs, call, mig, prompt, peer,
                   xf, factory, contactJob, calls>>

\* getAllJobs of load k settles: resolved with the list of its own service,
\* or rejected by the store.
LoadAnswer(k, fail) ==
    /\ k <= Len(loads)
    /\ loads[k].pc = "awaiting"
    /\ fail => TruthyId(loads[k].uid)
    /\ loads' = [loads EXCEPT ![k] =
                    [pc |-> "settled", uid |-> loads[k].uid, rejected |-> fail,
                     result |-> IF fail THEN <<>> ELSE ServiceGetAllJobs(loads[k].uid)]]
    /\ UNCHANGED <<now, nextId, storage, blob, table, userId, lastOp, appJobs, appError,
                   appLoading, call, mig, prompt, peer, xf, factory, contactJob, calls>>

\* loadJobs of load k after its await: SET_JOBS with the list, or SET_ERROR
\* and SET_JOBS with [] in the catch block.
LoadContinue(k) ==
    /\ k <= Len(loads)
    /\ loads[k].pc = "settled"
    /\ appJobs' = IF loads[k].rejected THEN <<>> ELSE loads[k].result
    /\ appError' = (appError \/ loads[k].rejected)
    /\ appLoading' = ReduceLoading(appLoading, "SET_JOBS", appJobs')
    /\ loads' = [loads EXCEPT ![k].pc = "done"]
    /\ UNCHANGED <<now, nextId, storage, blob, table, userId, lastOp, call, mig, prompt, peer,
                   xf, factory, contactJob, calls>>

InitLoad ==
    /\ now = 1
    /\ nextId = 1
    /\ storage \in {"ok", "down"}
    /\ blob = JobsBlob(<<LocalSeedJob(1, "req")>>)
    /\ table = SeedTable
    /\ userId \in Identities
    /\ lastOp = NoOp
    /\ appJobs = <<>>
    /\ appError = FALSE
    /\ appLoading = TRUE
    /\ loads = <<>>
    /\ calls = NoCalls
    /\ call = NoCall
    /\ mig = NoMig
    /\ prompt = NoPrompt
    /\ peer = NoOp
    /\ xf = NoXf
    /\ factory = NoFactory
    /\ contactJob = NoContactJob

NextLoad ==
    \/ \E u \in Identities : LoadJobs(u)
    \/ \E k \in 1..MaxLoads, fail \in BOOLEAN : LoadAnswer(k, fail)
    \/ \E k \in 1..MaxLoads : LoadContinue(k)

SpecLoad == InitLoad /\ [][NextLoad]_vars

\* The continuation of an await whose promise has settled is run by the event
\* loop.
SpecLoadFair == SpecLoad /\ \A k \in 1..MaxLoads : WF_vars(LoadContinue(k))

\* Every load started has settled and run its continuation, after at least
\* one change of identity.
LoadsSettled ==
    /\ Len(loads) >= 2
    /\ \A k \in 1..Len(loads) : loads[k].pc = "done"

\* C28: when the owner identity changes while an earlier loadJobs awaits
\* getAllJobs, the job list held once the loads have settled is the one the
\* new identity's backend returned.
C28_NoStaleLoad ==
    LoadsSettled =>
        appJobs = (IF loads[Len(loads)].rejected THEN <<>> ELSE loads[Len(loads)].result)

\* The continuation of a rejected load runs in this step.
RejectedLoadContinues(k) ==
    /\ k <= Len(loads)
    /\ loads[k].pc = "settled" /\ loads[k].rejected
    /\ loads'[k].pc = "done"

\* C30: once the getAllJobs of a loadJobs call has settled, resolved or
\* rejected, isLoading eventually becomes false; when it rejected, jobs is set
\* to the empty list and error to a message.
C30_LoadingEnds ==
    /\ \A k \in 1..MaxLoads :
          (k <= Len(loads) /\ loads[k].pc = "settled") ~> ~appLoading
    /\ [][ \A k \in 1..MaxLoads :
             RejectedLoadContinues(k) => (appJobs' = <<>> /\ appError' /\ ~appLoading') ]_vars

C30_Witness ==
    /\ Len(loads) = 1
    /\ loads[1].pc = "done" /\ loads[1].rejected
    /\ appJobs = <<>> /\ appError /\ ~appLoading

====
